---- MODULE Spec2Model ----
(***************************************************************************)
(* The check-execution pipeline of pricecious: the items table, the        *)
(* heartbeat (scheduled_refresh), the two due-item selectors, the manual   *)
(* triggers (POST /items/{id}/check, POST /jobs/refresh-all) and the       *)
(* executor (process_item_check), as a state machine.                      *)
(*                                                                         *)
(* Time is counted in ticks; TicksPerMinute ticks make one minute, so the  *)
(* division by 60 and the int() truncation of the selectors are modelled.  *)
(* A Python Optional value is a sequence of length 0 (None) or 1.          *)
(* Confidences and confidence thresholds are counted in hundredths, prices *)
(* in whole currency units.                                                *)
(***************************************************************************)
EXTENDS Integers, Sequences, FiniteSets, TLC

VARIABLES
    items,      \* the items table: item id -> row (models.Item)
    settings,   \* the settings table: one Optional value per key
    now,        \* datetime.now(UTC), in ticks
    runners,    \* owner -> the process_item_check calls it awaits, one at a time
    sel,        \* the last result of a stand-alone selector call
    scraper,    \* ScraperService: the shared browser, its lock and the scrape_item calls
    llm,        \* AIService: one analyze_image call and the requests it has issued
    response    \* ai_schema: one raw model answer and what AIExtractionResponse makes of it

vars == <<items, settings, now, runners, sel, scraper, llm, response>>

\* ------------------------------------------------------------------ bounds
NumItems == 2
MaxTime == 2
MaxReq == 1
MaxReqLoad == 6
TicksPerMinute == 2

\* ------------------------------------------------------- program constants
DefaultRefreshInterval == 60
MinInterval == 5
DefaultThresholdPrice == 50
DefaultThresholdStock == 50
UncertainChangePct == 20
UncertainConfidence == 70

Items == 1..NumItems

None == <<>>
Some(x) == <<x>>

\* Python truthiness of an Optional[int]: None and 0 are falsy.
Truthy(x) == x # None /\ x[1] # 0

Max(a, b) == IF a >= b THEN a ELSE b

\* The messages process_item_check raises itself, and the message of an
\* exception raised by a collaborator (scraper, AI client, database, sender).
MsgNoScreenshot == "Failed to capture screenshot"
MsgNoAIResult == "AI analysis failed to return a result"
MsgExternal == "external error"
MsgZeroDivision == "float division by zero"

\* A row of the items table. profile is None (no linked profile) or
\* Some(check_interval_minutes of the linked NotificationProfile).
\* price_history holds the item's rows of the price_history table, oldest
\* first.
\* A URL as urlparse(url.strip()) reads it: the scheme in lower case ("" when
\* there is none) and the Optional hostname in lower case, split at its dots,
\* or at its colons when it is an IPv6 literal.
Url(scheme, hostname) == [scheme |-> scheme, hostname |-> hostname]
Host(sep, labels) == Some([sep |-> sep, labels |-> labels])
PublicUrl == Url("https", Host(".", <<"example", "com">>))

\* target_price is the item's Optional target; alerts holds the alert columns
\* of the linked NotificationProfile (their defaults when none is linked).
DefaultAlerts ==
    [notify_on_price_drop |-> TRUE, price_drop_threshold_percent |-> 10,
     notify_on_target_price |-> TRUE, notify_on_stock_change |-> TRUE]

NewRow(active, item_int, profile) ==
    [exists |-> TRUE, is_active |-> active, is_refreshing |-> FALSE,
     last_checked |-> None, last_error |-> None,
     check_interval_minutes |-> item_int, profile |-> profile,
     current_price |-> None, current_price_confidence |-> None,
     in_stock |-> None, in_stock_confidence |-> None,
     price_history |-> <<>>,
     target_price |-> None, alerts |-> DefaultAlerts, url |-> PublicUrl]

\* The row of an id that is not in the table (deleted).
AbsentRow ==
    [exists |-> FALSE, is_active |-> FALSE, is_refreshing |-> FALSE,
     last_checked |-> None, last_error |-> None,
     check_interval_minutes |-> None, profile |-> None,
     current_price |-> None, current_price_confidence |-> None,
     in_stock |-> None, in_stock_confidence |-> None,
     price_history |-> <<>>,
     target_price |-> None, alerts |-> DefaultAlerts, url |-> PublicUrl]

\* The settings table with no key set but the refresh interval.
SettingsWith(interval) ==
    [refresh_interval_minutes |-> interval,
     confidence_threshold_price |-> None,
     confidence_threshold_stock |-> None,
     outlier_enabled |-> None,
     outlier_percent |-> None]

\* int(get_setting_value(db, "refresh_interval_minutes", "60"))
GlobalInterval ==
    IF settings.refresh_interval_minutes = None
    THEN DefaultRefreshInterval
    ELSE settings.refresh_interval_minutes[1]

\* (now - last_checked).total_seconds() / 60 >= interval
Elapsed(row, interval) == now - row.last_checked[1] >= interval * TicksPerMinute

\* int((now - last_checked).total_seconds() / 60)
MinutesSince(row) == (now - row.last_checked[1]) \div TicksPerMinute

\* ---------------------------------------------- ItemService.get_due_items
\* interval = item.check_interval_minutes
\* if not interval and item.notification_profile: interval = profile's
\* interval = max(interval or global_int, 5)
EffectiveInterval(row) ==
    LET i1 == row.check_interval_minutes
        i2 == IF ~Truthy(i1) /\ row.profile # None THEN row.profile ELSE i1
    IN  Max(IF Truthy(i2) THEN i2[1] ELSE GlobalInterval, MinInterval)

\* A selector that has lost the is_refreshing test.
SkipRefreshingNever(row) == FALSE

\* if item.is_refreshing: continue
SkipRefreshing(row) == row.is_refreshing

\* The entries one item contributes to the due list of ItemService.
ServiceDueEntry(i) ==
    LET row == items[i]
        interval == EffectiveInterval(row)
    IN  IF ~row.exists \/ ~row.is_active THEN <<>>
        ELSE IF SkipRefreshing(row) THEN <<>>
        ELSE IF row.last_checked = None THEN << <<i, interval, -1>> >>
        ELSE IF Elapsed(row, interval)
             THEN << <<i, interval, MinutesSince(row)>> >>
             ELSE <<>>

RECURSIVE ServiceDueUpTo(_)
ServiceDueUpTo(n) ==
    IF n = 0 THEN <<>> ELSE ServiceDueUpTo(n - 1) \o ServiceDueEntry(n)

ServiceGetDueItems == ServiceDueUpTo(NumItems)

\* ------------------------------------- scheduled_refresh.get_due_items
\* interval = global_interval
\* if item.notification_profile and profile.check_interval_minutes: ...
HeartbeatInterval(row) ==
    IF row.profile # None /\ Truthy(row.profile)
    THEN row.profile[1]
    ELSE GlobalInterval

\* A heartbeat selector that has lost the branch of the never-checked item.
HeartbeatDueEntryCheckedOnly(i) ==
    LET row == items[i]
        interval == HeartbeatInterval(row)
    IN  IF ~row.exists \/ ~row.is_active THEN <<>>
        ELSE IF row.is_refreshing THEN <<>>
        ELSE IF row.last_checked # None /\ Elapsed(row, interval)
             THEN << <<i, interval, MinutesSince(row)>> >>
             ELSE <<>>

\* The entries one item contributes to the due list of the heartbeat.
HeartbeatDueEntry(i) ==
    LET row == items[i]
        interval == HeartbeatInterval(row)
    IN  IF ~row.exists \/ ~row.is_active THEN <<>>
        ELSE IF row.is_refreshing THEN <<>>
        ELSE IF row.last_checked # None
             THEN IF Elapsed(row, interval)
                  THEN << <<i, interval, MinutesSince(row)>> >>
                  ELSE <<>>
             ELSE << <<i, interval, -1>> >>

RECURSIVE HeartbeatDueUpTo(_)
HeartbeatDueUpTo(n) ==
    IF n = 0 THEN <<>> ELSE HeartbeatDueUpTo(n - 1) \o HeartbeatDueEntry(n)

HeartbeatGetDueItems == HeartbeatDueUpTo(NumItems)

\* for item_id, _, _ in due_items
RECURSIVE DueIds(_)
DueIds(due) == IF due = <<>> THEN <<>> ELSE <<Head(due)[1]>> \o DueIds(Tail(due))

\* ------------------------------------------------------------- runners
\* Owner 0 is the heartbeat job; the other owners are HTTP requests whose
\* BackgroundTasks run after the response. An owner awaits its calls of
\* process_item_check one after the other: queue holds the item ids still to
\* be processed, its head being the call in progress at position pc.
Heartbeat == 0
Owners == DOMAIN runners
Requests == Owners \ {Heartbeat}

\* ext is the AIExtractionResponse of the call in progress and thr the
\* thresholds it read, both None until the call has them. item_data is what
\* get_item_data returned of the profile and the target, old the pair
\* (old_price, old_stock) update_db returned, and sent the alerts the call
\* has sent, None until it is through with them.
NoOld == [price |-> None, stock |-> None]

Idle ==
    [queue |-> <<>>, pc |-> "idle", exc |-> None, ext |-> None, thr |-> None,
     item_data |-> None, old |-> NoOld, sent |-> None]

\* The owner enters process_item_check for the head of q, if any.
Start(q) ==
    IF q = <<>> THEN Idle
    ELSE [queue |-> q, pc |-> "load", exc |-> None, ext |-> None, thr |-> None,
          item_data |-> None, old |-> NoOld, sent |-> None]

Cur(o) == Head(runners[o].queue)

At(o, pc) == runners[o].queue # <<>> /\ runners[o].pc = pc

Goto(o, pc, exc) == runners' = [runners EXCEPT ![o].pc = pc, ![o].exc = exc]

\* A request occupies the lowest free slot (the slot number is a name only).
FreeSlot(o) ==
    /\ o \in Requests
    /\ runners[o].pc = "idle"
    /\ \A p \in Requests : p < o => runners[p].pc # "idle"

\* ------------------------------------------------- routers: the triggers
\* POST /items/{item_id}/check
check_item(i) ==
    /\ items[i].exists
    /\ \E o \in Requests :
         /\ FreeSlot(o)
         /\ runners' = [runners EXCEPT ![o] = Start(<<i>>)]
    /\ items' = [items EXCEPT ![i].is_refreshing = TRUE, ![i].last_error = None]
    /\ UNCHANGED <<settings, now, sel, scraper, llm, response>>

\* select(models.Item).where(models.Item.is_active), in id order
RECURSIVE ActiveUpTo(_)
ActiveUpTo(n) ==
    IF n = 0 THEN <<>>
    ELSE ActiveUpTo(n - 1) \o
         (IF items[n].exists /\ items[n].is_active THEN <<n>> ELSE <<>>)

\* The query without its last row.
ActiveItemsButLast == ActiveUpTo(NumItems - 1)

ActiveItems == ActiveUpTo(NumItems)

SeqToSet(q) == {q[k] : k \in 1..Len(q)}

\* POST /jobs/refresh-all (with no active item it changes nothing)
refresh_all_items ==
    /\ ActiveItems # <<>>
    /\ \E o \in Requests :
         /\ FreeSlot(o)
         /\ runners' = [runners EXCEPT ![o] = Start(ActiveItems)]
    /\ items' = [i \in Items |->
                   IF i \in SeqToSet(ActiveItems)
                   THEN [items[i] EXCEPT !.is_refreshing = TRUE]
                   ELSE items[i]]
    /\ UNCHANGED <<settings, now, sel, scraper, llm, response>>

\* DELETE /items/{item_id}
delete_item(i) ==
    /\ items[i].exists
    /\ items' = [items EXCEPT ![i] = AbsentRow]
    /\ UNCHANGED <<settings, now, runners, sel, scraper, llm, response>>

\* ------------------------------------------------ process_item_check
\* get_item_data, awaited before the try block: a missing row returns, a
\* failure of the query or of the parsing of the settings propagates.
ItemData(row) ==
    [notification_profile |-> IF row.profile = None THEN None ELSE Some(row.alerts),
     target_price |-> row.target_price]

get_item_data(o) ==
    /\ At(o, "load")
    /\ \/ /\ items[Cur(o)].exists
          /\ runners' = [runners EXCEPT ![o].pc = "scrape",
                                          ![o].item_data = Some(ItemData(items[Cur(o)]))]
       \/ /\ ~items[Cur(o)].exists
          /\ Goto(o, "returned", None)
       \/ Goto(o, "raised", Some(MsgExternal))
    /\ UNCHANGED <<items, settings, now, sel, scraper, llm, response>>

\* scraper.scrape_item: a screenshot path, no path, or an exception
scrape_item(o) ==
    /\ At(o, "scrape")
    /\ \/ Goto(o, "analyze", None)
       \/ Goto(o, "error", Some(MsgNoScreenshot))
       \/ Goto(o, "error", Some(MsgExternal))
    /\ UNCHANGED <<items, settings, now, sel, scraper, llm, response>>

\* ai_schema.AIExtractionResponse: price and in_stock are Optional, the
\* confidences are clamped to [0, 1] (0..100 hundredths).
Extraction(price, price_confidence, in_stock, in_stock_confidence) ==
    [price |-> price, price_confidence |-> price_confidence,
     in_stock |-> in_stock, in_stock_confidence |-> in_stock_confidence]

\* The response of a model that found neither a price nor a stock status.
NullExtraction == Extraction(None, 0, None, 0)

\* ai.analyze_image returns ai_result: Some(extraction) or None; it catches
\* every exception of its own and returns None instead.
analyze_image(o, ai_result) ==
    /\ At(o, "analyze")
    /\ IF ai_result # None
       THEN runners' = [runners EXCEPT ![o].pc = "thresholds",
                                       ![o].ext = ai_result]
       ELSE Goto(o, "error", Some(MsgNoAIResult))
    /\ UNCHANGED <<items, settings, now, sel, scraper, llm, response>>

\* float(settings_map.get("confidence_threshold_price", "0.5")), and the
\* same for the stock
Thresholds ==
    [price |-> IF settings.confidence_threshold_price = None
               THEN DefaultThresholdPrice
               ELSE settings.confidence_threshold_price[1],
     stock |-> IF settings.confidence_threshold_stock = None
               THEN DefaultThresholdStock
               ELSE settings.confidence_threshold_stock[1]]

\* get_thresholds: reads the settings, or fails
get_thresholds(o) ==
    /\ At(o, "thresholds")
    /\ \/ runners' = [runners EXCEPT ![o].pc = "update",
                                      ![o].thr = Some(Thresholds)]
       \/ Goto(o, "error", Some(MsgExternal))
    /\ UNCHANGED <<items, settings, now, sel, scraper, llm, response>>

MsgUncertain == "Uncertain: Large price change with low confidence"

\* item.last_error.startswith("Uncertain:")
IsUncertainMsg(err) == err = Some(MsgUncertain)

\* price_confidence >= thresholds["price"], for a price that is not None
PriceGate(e, thr) == e.price # None /\ e.price_confidence >= thr.price

\* abs(price - old_price) / old_price * 100 raises ZeroDivisionError
DividesByZero(row, e, thr) ==
    /\ PriceGate(e, thr)
    /\ row.current_price = Some(0)

Abs(x) == IF x >= 0 THEN x ELSE 0 - x

\* The uncertain test with its bound on the change taken inclusively.
IsUncertainFromBound(old_price, e) ==
    /\ Abs(e.price[1] - old_price) * 100 >= UncertainChangePct * old_price
    /\ e.price_confidence < UncertainConfidence

\* price_change_pct > 20 and price_confidence < 0.7, for old_price > 0
IsUncertain(old_price, e) ==
    /\ Abs(e.price[1] - old_price) * 100 > UncertainChangePct * old_price
    /\ e.price_confidence < UncertainConfidence

\* A price that passed the gate is stored, whatever the change.
PriceRow(row, e, thr) ==
    IF ~PriceGate(e, thr) THEN row
    ELSE [row EXCEPT
            !.current_price = e.price,
            !.current_price_confidence = Some(e.price_confidence),
            !.last_error =
                IF row.current_price # None /\ IsUncertain(row.current_price[1], e)
                THEN Some(MsgUncertain) ELSE @]

\* A stock update nested under the acceptance of the price.
StockRowWithPrice(row, e, thr) ==
    IF PriceGate(e, thr) /\ e.in_stock # None /\ e.in_stock_confidence >= thr.stock
    THEN [row EXCEPT !.in_stock = e.in_stock,
                     !.in_stock_confidence = Some(e.in_stock_confidence)]
    ELSE row

\* if in_stock is not None and in_stock_confidence >= thresholds["stock"]
StockRow(row, e, thr) ==
    IF e.in_stock # None /\ e.in_stock_confidence >= thr.stock
    THEN [row EXCEPT !.in_stock = e.in_stock,
                     !.in_stock_confidence = Some(e.in_stock_confidence)]
    ELSE row

\* models.PriceHistory(price=..., price_confidence=..., in_stock_confidence=...)
HistoryEntry(e) ==
    [price |-> e.price[1], price_confidence |-> e.price_confidence,
     in_stock_confidence |-> e.in_stock_confidence]

\* A history that records only the prices of at least default confidence.
HistoryRowConfident(row, e) ==
    IF e.price # None /\ e.price_confidence >= DefaultThresholdPrice
    THEN [row EXCEPT !.price_history = Append(@, HistoryEntry(e))]
    ELSE row

\* if price is not None: session.add(history)
HistoryRow(row, e) ==
    IF e.price # None
    THEN [row EXCEPT !.price_history = Append(@, HistoryEntry(e))]
    ELSE row

\* A bookkeeping that never clears last_error.
BookkeepingRowKeepsError(row) ==
    [row EXCEPT !.last_checked = Some(now), !.is_refreshing = FALSE]

\* The bookkeeping at the end of update_db: a last_error that starts with
\* "Uncertain:" is kept, any other is cleared.
BookkeepingRow(row) ==
    [row EXCEPT !.last_checked = Some(now),
                !.is_refreshing = FALSE,
                !.last_error = IF IsUncertainMsg(@) THEN @ ELSE None]

\* The row update_db commits for extraction e under thresholds thr.
UpdatedRow(row, e, thr) ==
    BookkeepingRow(HistoryRow(StockRow(PriceRow(row, e, thr), e, thr), e))

\* update_db: commits the update of the row; returns (None, None) when the
\* row is gone; or fails before the commit, by an error of the database or
\* by the division by an old price of 0.
update_db(o) ==
    /\ At(o, "update")
    /\ LET e == runners[o].ext[1]
           thr == runners[o].thr[1]
           row == items[Cur(o)]
       IN  \/ /\ row.exists
              /\ IF DividesByZero(row, e, thr)
                 THEN /\ Goto(o, "error", Some(MsgZeroDivision))
                      /\ UNCHANGED items
                 ELSE /\ items' = [items EXCEPT ![Cur(o)] = UpdatedRow(row, e, thr)]
                      /\ runners' = [runners EXCEPT
                                        ![o].pc = "notify",
                                        ![o].old = [price |-> row.current_price,
                                                    stock |-> row.in_stock]]
           \/ /\ ~row.exists
              /\ Goto(o, "notify", None)
              /\ UNCHANGED items
           \/ /\ Goto(o, "error", Some(MsgExternal))
              /\ UNCHANGED items
    /\ UNCHANGED <<settings, now, sel, scraper, llm, response>>

\* 100 * (old_price - price) / old_price >= threshold, for old_price > 0.
DropMeetsAfter(price, old_price, threshold) ==
    (old_price - price) * 100 > threshold * old_price

DropMeets(price, old_price, threshold) ==
    (old_price - price) * 100 >= threshold * old_price

\* Lines 163-166 of process_item_check.
PriceDropDue(profile, price, old_price) ==
    /\ profile.notify_on_price_drop
    /\ price # None /\ old_price # None
    /\ price[1] < old_price[1]
    /\ DropMeets(price[1], old_price[1], profile.price_drop_threshold_percent)

\* Line 173: a target of None or 0 is falsy.
TargetDue(profile, price, target_price) ==
    /\ profile.notify_on_target_price
    /\ price # None
    /\ target_price # None /\ target_price[1] # 0
    /\ price[1] <= target_price[1]

\* Line 180.
StockChangeDueFirstReading(profile, in_stock, old_stock) ==
    /\ profile.notify_on_stock_change
    /\ in_stock # None
    /\ in_stock # old_stock

StockChangeDue(profile, in_stock, old_stock) ==
    /\ profile.notify_on_stock_change
    /\ in_stock # None /\ old_stock # None
    /\ in_stock # old_stock

\* The alerts of lines 161-186, given the extraction and what update_db
\* returned.
AlertsDue(item_data, e, old) ==
    IF item_data.notification_profile = None THEN {}
    ELSE LET profile == item_data.notification_profile[1] IN
         (IF PriceDropDue(profile, e.price, old.price) THEN {"price_drop"} ELSE {})
         \cup (IF TargetDue(profile, e.price, item_data.target_price)
               THEN {"target_price"} ELSE {})
         \cup (IF StockChangeDue(profile, e.in_stock, old.stock)
               THEN {"stock_change"} ELSE {})

\* Line 165 divides by an old price of 0 when the new price is below it.
DropDividesByZero(item_data, e, old) ==
    /\ item_data.notification_profile # None
    /\ item_data.notification_profile[1].notify_on_price_drop
    /\ e.price # None /\ old.price # None
    /\ e.price[1] < old.price[1]
    /\ old.price[1] = 0

\* The notifications after the update: all that are due are sent, or a send
\* fails, or the drop cannot be computed.
send_notifications(o) ==
    /\ At(o, "notify")
    /\ LET d == runners[o].item_data[1]
           e == runners[o].ext[1]
           old == runners[o].old
       IN  IF DropDividesByZero(d, e, old)
           THEN Goto(o, "error", Some(MsgZeroDivision))
           ELSE \/ runners' = [runners EXCEPT ![o].pc = "returned",
                                              ![o].exc = None,
                                              ![o].sent = Some(AlertsDue(d, e, old))]
                \/ Goto(o, "error", Some(MsgExternal))
    /\ UNCHANGED <<items, settings, now, sel, scraper, llm, response>>

\* An error update that forgets the message.
ErrorRowFlagOnly(row, exc) == [row EXCEPT !.is_refreshing = FALSE]

\* An error update that also drops the price it can no longer vouch for.
ErrorRowResetsPrice(row, exc) ==
    [row EXCEPT !.is_refreshing = FALSE, !.last_error = exc,
                !.current_price = None, !.current_price_confidence = None]

\* item.is_refreshing = False; item.last_error = str(e)
ErrorRow(row, exc) == [row EXCEPT !.is_refreshing = FALSE, !.last_error = exc]

\* except Exception as e: update_db_error, which may fail itself
update_db_error(o) ==
    /\ At(o, "error")
    /\ \/ /\ items' = [items EXCEPT ![Cur(o)] =
                         IF @.exists THEN ErrorRow(@, runners[o].exc) ELSE @]
          /\ Goto(o, "returned", None)
       \/ /\ Goto(o, "raised", Some(MsgExternal))
          /\ UNCHANGED items
    /\ UNCHANGED <<settings, now, sel, scraper, llm, response>>

\* process_item_check returned: the owner goes on with its next call.
OnReturn(o) ==
    /\ At(o, "returned")
    /\ runners' = [runners EXCEPT ![o] = Start(Tail(runners[o].queue))]
    /\ UNCHANGED <<items, settings, now, sel, scraper, llm, response>>

\* process_item_check raised: scheduled_refresh logs it in its except
\* clause and ends; BackgroundTasks stops at the task that raised.
OnRaise(o) ==
    /\ At(o, "raised")
    /\ runners' = [runners EXCEPT ![o] = Idle]
    /\ UNCHANGED <<items, settings, now, sel, scraper, llm, response>>

\* ------------------------------------------------- scheduled_refresh
\* The interval trigger fires; one instance of the job runs at a time.
HeartbeatTick ==
    /\ runners[Heartbeat].pc = "idle"
    /\ runners' = [runners EXCEPT ![Heartbeat].pc = "select"]
    /\ UNCHANGED <<items, settings, now, sel, scraper, llm, response>>

\* due_items = await get_due_items(), then the loop over them; a failure of
\* the query is logged and ends the tick.
scheduled_refresh ==
    /\ runners[Heartbeat].pc = "select"
    /\ \/ runners' = [runners EXCEPT ![Heartbeat] = Start(DueIds(HeartbeatGetDueItems))]
       \/ runners' = [runners EXCEPT ![Heartbeat] = Idle]
    /\ UNCHANGED <<items, settings, now, sel, scraper, llm, response>>

\* Time passes.
ClockTick ==
    /\ now < MaxTime
    /\ now' = now + 1
    /\ UNCHANGED <<items, settings, runners, sel, scraper, llm, response>>

\* The results of ai.analyze_image in the specifications that follow the
\* checks of several items: no result, or a result with no price and no
\* stock status.
AIResults == {None, Some(NullExtraction)}

process_item_check(o) ==
    \/ get_item_data(o)
    \/ scrape_item(o)
    \/ \E r \in AIResults : analyze_image(o, r)
    \/ get_thresholds(o)
    \/ update_db(o)
    \/ send_notifications(o)
    \/ update_db_error(o)

\* Every step an owner takes on its own, once triggered.
RunnerStep(o) ==
    \/ process_item_check(o)
    \/ OnReturn(o)
    \/ OnRaise(o)
    \/ (o = Heartbeat /\ scheduled_refresh)

\* ------------------------------------------- stand-alone selector calls
NoSel == [kind |-> "none", due |-> <<>>]

\* await ItemService.get_due_items()
get_due_items ==
    /\ sel' = [kind |-> "ItemService", due |-> ServiceGetDueItems]
    /\ UNCHANGED <<items, settings, now, runners, scraper, llm, response>>

\* get_due_items() of scheduled_refresh, on the same table
heartbeat_get_due_items ==
    /\ sel' = [kind |-> "scheduled_refresh", due |-> HeartbeatGetDueItems]
    /\ UNCHANGED <<items, settings, now, runners, scraper, llm, response>>

\* --------------------------------------------------------- specifications
\* ------------------------------------------------- the services at import
\* ScraperService's class attributes as the class body leaves them
\* (_playwright = None, _browser = None, _lock = asyncio.Lock()), with one
\* scrape_item call slot per caller; AIService before any analyze_image call.
CallerIdle ==
    [pc |-> "idle", via |-> "ensure", h |-> 0, ctx |-> "none", page |-> FALSE,
     smart_scroll |-> FALSE, timeout |-> 0, navtimeout |-> None,
     naverr |-> "none", closederr |-> FALSE, hard |-> FALSE, soft |-> FALSE,
     shots |-> 0, after_shot |-> FALSE, ret |-> None, raised |-> FALSE]

ScraperAtImport(callers) ==
    [browser |-> None, playwright |-> FALSE, alive |-> {}, lost |-> {},
     reset |-> {}, nconn |-> 0, holder |-> None, waiters |-> <<>>,
     calls |-> [c \in callers |-> CallerIdle]]

LlmIdle ==
    [pc |-> "idle", provider |-> "openai", enable_json_repair |-> TRUE,
     attempts |-> 0, requests |-> <<>>, last |-> "none", call_llm |-> "none",
     text |-> None, result |-> None, repair_used |-> FALSE]

\* No model answer is being validated.
NoResponse == [pc |-> "none"]

\* Spec: the whole pipeline. Every item is active; item 1 is linked to a
\* profile that overrides the interval with one minute.
Init ==
    /\ items = [i \in Items |-> NewRow(TRUE, None, IF i = 1 THEN Some(1) ELSE None)]
    /\ settings = SettingsWith(None)
    /\ now = 0
    /\ runners = [o \in 0..MaxReq |-> Idle]
    /\ sel = NoSel
    /\ scraper = ScraperAtImport({})
    /\ llm = LlmIdle
    /\ response = NoResponse

Next ==
    \/ \E i \in Items : check_item(i)
    \/ refresh_all_items
    \/ \E i \in Items : delete_item(i)
    \/ HeartbeatTick
    \/ scheduled_refresh
    \/ ClockTick
    \/ \E o \in Owners : get_item_data(o)
    \/ \E o \in Owners : scrape_item(o)
    \/ \E o \in Owners, r \in AIResults : analyze_image(o, r)
    \/ \E o \in Owners : get_thresholds(o)
    \/ \E o \in Owners : update_db(o)
    \/ \E o \in Owners : send_notifications(o)
    \/ \E o \in Owners : update_db_error(o)
    \/ \E o \in Owners : OnReturn(o)
    \/ \E o \in Owners : OnRaise(o)

Spec == Init /\ [][Next]_vars

\* FairSpec: the event loop resumes every coroutine that can go on, and the
\* interval trigger keeps firing.
FairSpec ==
    /\ Spec
    /\ \A o \in 0..MaxReq : WF_vars(RunnerStep(o))
    /\ WF_vars(HeartbeatTick)

\* SpecSel: the two selectors applied to tables, settings and times drawn
\* from the sets below. Times are in ticks.
SelItemIntervals == {None, Some(0), Some(1), Some(5), Some(30)}
SelProfiles == {None, Some(0), Some(3), Some(120)}
SelGlobals == {None, Some(1), Some(60)}
SelNow == {0, 9, 10, 120, 240}

InitSel ==
    /\ items \in [Items ->
         {[NewRow(a, ii, p) EXCEPT !.is_refreshing = r, !.last_checked = lc] :
            a \in BOOLEAN, r \in BOOLEAN, ii \in SelItemIntervals,
            p \in SelProfiles, lc \in {None, Some(0)}}]
    /\ \A i \in Items \ {1} :
         /\ items[i].check_interval_minutes = None
         /\ items[i].profile = None
         /\ items[i].last_checked = None
    /\ settings \in {SettingsWith(g) : g \in SelGlobals}
    /\ now \in SelNow
    /\ runners = [o \in 0..MaxReq |-> Idle]
    /\ sel = NoSel
    /\ scraper = ScraperAtImport({})
    /\ llm = LlmIdle
    /\ response = NoResponse

NextSel ==
    \/ get_due_items
    \/ heartbeat_get_due_items

SpecSel == InitSel /\ [][NextSel]_vars

\* SpecLoad: manual checks of one item arriving on MaxReqLoad request slots,
\* each followed up to its scrape.
InitLoad ==
    /\ items = [i \in Items |-> IF i = 1 THEN NewRow(TRUE, None, None) ELSE AbsentRow]
    /\ settings = SettingsWith(None)
    /\ now = 0
    /\ runners = [o \in 0..MaxReqLoad |-> Idle]
    /\ sel = NoSel
    /\ scraper = ScraperAtImport({})
    /\ llm = LlmIdle
    /\ response = NoResponse

NextLoad ==
    \/ \E i \in Items : check_item(i)
    \/ \E o \in Owners : get_item_data(o)
    \/ \E o \in Owners : scrape_item(o)

SpecLoad == InitLoad /\ [][NextLoad]_vars

\* SpecUpd: the heartbeat checks one item again and again, one minute being
\* the refresh interval, while the model reads the prices and stock values
\* below from the page and the settings hold the thresholds below. The
\* settings also hold the two keys of the outlier guard. The item starts
\* fresh, or as earlier checks at time 0 left it: with a price of 100, with
\* a price of 100 and the error of a later failed check, or with a price
\* that went from 100 to 125 at low confidence.
UpdPriceReadings ==
    {<<None, 0>>, <<Some(0), 90>>, <<Some(100), 90>>, <<Some(120), 60>>,
     <<Some(125), 40>>, <<Some(125), 60>>, <<Some(125), 70>>,
     <<Some(150), 90>>, <<Some(151), 90>>}
UpdStockReadings ==
    {<<None, 0>>, <<Some(TRUE), 90>>, <<Some(FALSE), 40>>, <<Some(FALSE), 50>>}
UpdAIResults ==
    {None} \cup {Some(Extraction(p[1], p[2], k[1], k[2])) :
                    p \in UpdPriceReadings, k \in UpdStockReadings}
UpdThresholdsPrice == {None, Some(70)}
UpdThresholdsStock == {None, Some(95)}
UpdOutlierPercents == {Some(50)}

CheckedRow(price, confidence, err, history) ==
    [NewRow(TRUE, None, None) EXCEPT
        !.last_checked = Some(0), !.last_error = err,
        !.current_price = Some(price),
        !.current_price_confidence = Some(confidence),
        !.in_stock = Some(TRUE), !.in_stock_confidence = Some(90),
        !.price_history = history]

UpdRows ==
    LET h100 == HistoryEntry(Extraction(Some(100), 90, Some(TRUE), 90))
        h125 == HistoryEntry(Extraction(Some(125), 60, Some(TRUE), 90))
    IN  {NewRow(TRUE, None, None),
         CheckedRow(100, 90, None, <<h100>>),
         CheckedRow(100, 90, Some(MsgNoScreenshot), <<h100>>),
         CheckedRow(125, 60, Some(MsgUncertain), <<h100, h125>>)}

InitUpd ==
    /\ items \in {[i \in Items |-> IF i = 1 THEN row ELSE AbsentRow] : row \in UpdRows}
    /\ settings \in
         {[SettingsWith(Some(1)) EXCEPT
             !.confidence_threshold_price = tp,
             !.confidence_threshold_stock = ts,
             !.outlier_enabled = Some(oe),
             !.outlier_percent = op] :
            tp \in UpdThresholdsPrice, ts \in UpdThresholdsStock,
            oe \in BOOLEAN, op \in UpdOutlierPercents}
    /\ now = 0
    /\ runners = [o \in 0..MaxReq |-> Idle]
    /\ sel = NoSel
    /\ scraper = ScraperAtImport({})
    /\ llm = LlmIdle
    /\ response = NoResponse

NextUpd ==
    \/ HeartbeatTick
    \/ scheduled_refresh
    \/ ClockTick
    \/ \E o \in Owners : get_item_data(o)
    \/ \E o \in Owners : scrape_item(o)
    \/ \E o \in Owners, r \in UpdAIResults : analyze_image(o, r)
    \/ \E o \in Owners : get_thresholds(o)
    \/ \E o \in Owners : update_db(o)
    \/ \E o \in Owners : send_notifications(o)
    \/ \E o \in Owners : update_db_error(o)
    \/ \E o \in Owners : OnReturn(o)
    \/ \E o \in Owners : OnRaise(o)

SpecUpd == InitUpd /\ [][NextUpd]_vars

\* ------------------------------------------------------------ the claims
\* A check is in flight for owner o from its dispatch until it reaches its
\* terminal path (update_db or update_db_error).
InFlight(o) ==
    /\ runners[o].queue # <<>>
    /\ runners[o].pc \in {"load", "scrape", "analyze", "thresholds", "update"}

\* A call of process_item_check that has not ended yet.
Running(o) ==
    /\ runners[o].queue # <<>>
    /\ runners[o].pc \notin {"idle", "select", "returned", "raised"}

\* C1: for every item, at most one check of it is in flight at any time,
\* whatever the interleaving of heartbeat ticks, manual checks and refresh-all.
C1_AtMostOneCheckPerItem ==
    \A i \in Items : Cardinality({o \in Owners : InFlight(o) /\ Cur(o) = i}) <= 1

\* C2: when a check of an existing item ends, on whichever terminal path,
\* the item's is_refreshing is false.
C2_EndsWithFlagCleared ==
    [][\A o \in Owners :
         (/\ runners[o].pc \notin {"returned", "raised"}
          /\ runners'[o].queue # <<>>
          /\ runners'[o].pc \in {"returned", "raised"}
          /\ items'[Head(runners'[o].queue)].exists)
         => ~items'[Head(runners'[o].queue)].is_refreshing]_vars

\* C3: an item whose check is in flight has is_refreshing = true, whether the
\* heartbeat or a manual trigger dispatched the check.
C3_InFlightIsFlagged ==
    \A o \in Owners :
        (InFlight(o) /\ items[Cur(o)].exists) => items[Cur(o)].is_refreshing

\* C4: neither selector returns an item whose is_refreshing is true, however
\* long ago it was checked and also when it was never checked.
C4_RefreshingNeverSelected ==
    \A k \in 1..Len(sel.due) : ~items[sel.due[k][1]].is_refreshing

\* C4 witness: a selector ran over a table holding an active, refreshing,
\* never-checked item and returned another item.
C4_Witness ==
    /\ sel.kind = "scheduled_refresh"
    /\ sel.due # <<>>
    /\ \E i \in Items :
         /\ items[i].is_active /\ items[i].is_refreshing
         /\ items[i].last_checked = None

\* C5: every item flagged as refreshing is eventually not refreshing again.
C5_EventuallyCleared ==
    \A i \in Items : items[i].is_refreshing ~> ~items[i].is_refreshing

\* C6: process_item_check never raises to its caller.
C6_NeverRaises == \A o \in Owners : ~At(o, "raised")

\* C7: in one heartbeat tick a check is started for every due item: the tick
\* never ends while due items it selected are still waiting behind the
\* check in progress.
C7_AllDueStarted ==
    [][(runners[Heartbeat].queue # <<>> /\ runners'[Heartbeat].queue = <<>>)
         => Len(runners[Heartbeat].queue) = 1]_vars

\* C8: at most 5 checks are running system-wide at any moment.
C8_AtMostFiveRunning == Cardinality({o \in Owners : Running(o)}) <= 5

\* The interval C9 states: the item's own interval if set and non-zero, else
\* the profile's if set and non-zero, else the global one; at least 5.
ClaimedInterval(row) ==
    LET v == IF Truthy(row.check_interval_minutes) THEN row.check_interval_minutes[1]
             ELSE IF Truthy(row.profile) THEN row.profile[1]
             ELSE GlobalInterval
    IN  IF v >= 5 THEN v ELSE 5

\* C9: the interval a selector applies to an item, as returned with the item,
\* is max(5, v) with v resolved item -> profile -> global.
C9_IntervalHierarchy ==
    \A k \in 1..Len(sel.due) : sel.due[k][2] = ClaimedInterval(items[sel.due[k][1]])

\* C10: an active item that is not refreshing and was never checked is
\* returned by every selector call, with minutes_overdue = -1.
C10_NeverCheckedIsDue ==
    sel.kind # "none" =>
        \A i \in Items :
            (/\ items[i].exists /\ items[i].is_active
             /\ ~items[i].is_refreshing /\ items[i].last_checked = None)
            => \E k \in 1..Len(sel.due) : sel.due[k][1] = i /\ sel.due[k][3] = -1

\* C10 witness: ItemService's selector returned a never-checked item whose
\* own interval is 30 minutes at time 0.
C10_Witness ==
    /\ sel.kind = "ItemService"
    /\ now = 0
    /\ items[1].check_interval_minutes = Some(30)
    /\ items[1].last_checked = None
    /\ \E k \in 1..Len(sel.due) : sel.due[k] = <<1, 30, -1>>

\* The step in which owner o commits update_db for a row that exists.
UpdCommit(o) ==
    /\ At(o, "update")
    /\ items[Cur(o)].exists
    /\ runners'[o].pc = "notify"

\* The step in which owner o commits update_db_error for a row that exists.
ErrCommit(o) ==
    /\ At(o, "error")
    /\ items[Cur(o)].exists
    /\ runners'[o].pc = "returned"

\* C11: a successful check sets last_checked to the time of its completion,
\* and from then on a heartbeat tick selects the item if and only if it is
\* active, not refreshing and its effective interval has elapsed since
\* last_checked.
C11_DueWhenIntervalElapsed ==
    [][/\ \A o \in Owners :
            UpdCommit(o) => items'[Cur(o)].last_checked = Some(now)
       /\ (runners[Heartbeat].pc = "select" /\ runners'[Heartbeat].pc = "load") =>
            \A i \in Items :
                (items[i].exists /\ items[i].last_checked # None) =>
                    (i \in SeqToSet(runners'[Heartbeat].queue)
                       <=> /\ items[i].is_active
                           /\ ~items[i].is_refreshing
                           /\ now - items[i].last_checked[1]
                                >= ClaimedInterval(items[i]) * TicksPerMinute)]_vars

\* C12: when a check fails with an exception, the item ends with
\* is_refreshing false, last_error equal to the message of the exception and
\* last_checked set to the time of the failed check.
C12_FailureStampsLastChecked ==
    [][\A o \in Owners :
         ErrCommit(o) =>
            /\ ~items'[Cur(o)].is_refreshing
            /\ items'[Cur(o)].last_error = runners[o].exc
            /\ items'[Cur(o)].last_checked = Some(now)]_vars

\* The percentage increase of the new price over the previous one exceeds
\* the outlier threshold of the settings (previous price above 0).
ExceedsOutlier(old_price, price) ==
    (price - old_price) * 100 > settings.outlier_percent[1] * old_price

\* The acceptance rule C13 states: the price is there, its confidence
\* reaches the price threshold, and the outlier guard lets it pass.
ClaimedAccept(row, e, thr) ==
    /\ e.price # None
    /\ e.price_confidence >= thr.price
    /\ \/ settings.outlier_enabled # Some(TRUE)
       \/ row.current_price = None
       \/ ~ExceedsOutlier(row.current_price[1], e.price[1])

\* C13: the extracted price becomes the item's current price, with its
\* confidence, if and only if it is there, its confidence is at least the
\* price threshold and the outlier guard (off, or no previous price, or an
\* increase of at most the outlier threshold) lets it pass; otherwise the
\* current price and its confidence stay as they were.
C13_PriceAcceptedIffGuardPasses ==
    [][\A o \in Owners :
         UpdCommit(o) =>
            LET row == items[Cur(o)]
                new == items'[Cur(o)]
                e == runners[o].ext[1]
                thr == runners[o].thr[1]
            IN  IF ClaimedAccept(row, e, thr)
                THEN /\ new.current_price = e.price
                     /\ new.current_price_confidence = Some(e.price_confidence)
                ELSE /\ new.current_price = row.current_price
                     /\ new.current_price_confidence = row.current_price_confidence]_vars

\* The case of C14: the guard is on and rejects the new price.
OutlierCase(row, e, thr) ==
    /\ e.price # None
    /\ e.price_confidence >= thr.price
    /\ ~ClaimedAccept(row, e, thr)

MsgPriceRejected == "Price rejected"

\* C14: when the new price is rejected as an outlier the check ends on the
\* success path with current_price and its confidence unchanged, last_error
\* a "Price rejected" message, last_checked the time of this check and
\* is_refreshing cleared.
C14_OutlierRejectedSoftly ==
    [][\A o \in Owners :
         (/\ At(o, "update")
          /\ items[Cur(o)].exists
          /\ runners'[o].pc \in {"notify", "error"}
          /\ runners'[o].exc # Some(MsgExternal)
          /\ OutlierCase(items[Cur(o)], runners[o].ext[1], runners[o].thr[1]))
         => LET row == items[Cur(o)]
                new == items'[Cur(o)]
            IN  /\ runners'[o].pc = "notify"
                /\ new.current_price = row.current_price
                /\ new.current_price_confidence = row.current_price_confidence
                /\ new.last_error = Some(MsgPriceRejected)
                /\ new.last_checked = Some(now)
                /\ ~new.is_refreshing]_vars

\* The condition C15 states: a price that passes the confidence gate, a
\* previous price (above 0, so that the change has a percentage), a change
\* of more than 20% of it and a confidence below 0.7.
ClaimedUncertain(row, e, thr) ==
    /\ e.price # None
    /\ e.price_confidence >= thr.price
    /\ row.current_price # None
    /\ row.current_price[1] > 0
    /\ Abs(e.price[1] - row.current_price[1]) * 100 > 20 * row.current_price[1]
    /\ e.price_confidence < 70

\* C15: an accepted price that differs from the previous one by more than
\* 20% at a confidence below 0.7 is stored as the current price and
\* historized, and the check leaves last_error an "Uncertain:" message; an
\* update without that condition sets no "Uncertain:" message (last_error is
\* one afterwards only if it was one before).
C15_UncertainFlag ==
    [][\A o \in Owners :
         UpdCommit(o) =>
            LET row == items[Cur(o)]
                new == items'[Cur(o)]
                e == runners[o].ext[1]
                thr == runners[o].thr[1]
            IN  IF ClaimedUncertain(row, e, thr)
                THEN /\ new.current_price = e.price
                     /\ new.current_price_confidence = Some(e.price_confidence)
                     /\ Len(new.price_history) = Len(row.price_history) + 1
                     /\ new.price_history[Len(new.price_history)].price = e.price[1]
                     /\ IsUncertainMsg(new.last_error)
                ELSE IsUncertainMsg(new.last_error) => IsUncertainMsg(row.last_error)]_vars

\* C15 witness: the price went from 100 to 125 at confidence 0.6 in a check
\* at time 2, which left the "Uncertain:" message.
C15_Witness ==
    /\ items[1].last_checked = Some(2)
    /\ items[1].current_price = Some(125)
    /\ items[1].current_price_confidence = Some(60)
    /\ Len(items[1].price_history) = 2
    /\ items[1].price_history[1].price = 100
    /\ items[1].last_error = Some(MsgUncertain)

\* C16: after a check that ends in a clean update (no outlier rejection, no
\* uncertain condition in this check) last_error is null, whatever message it
\* held before the check.
C16_CleanUpdateClearsError ==
    [][\A o \in Owners :
         (/\ UpdCommit(o)
          /\ ~ClaimedUncertain(items[Cur(o)], runners[o].ext[1], runners[o].thr[1])
          /\ ~OutlierCase(items[Cur(o)], runners[o].ext[1], runners[o].thr[1]))
         => items'[Cur(o)].last_error = None]_vars

\* C16 as amended: after a check that ends in a clean update last_error is
\* null, unless it held an "Uncertain:" message before the update, which is
\* then kept as it was.
C16_CleanUpdateKeepsOnlyUncertain ==
    [][\A o \in Owners :
         (/\ UpdCommit(o)
          /\ ~ClaimedUncertain(items[Cur(o)], runners[o].ext[1], runners[o].thr[1])
          /\ ~OutlierCase(items[Cur(o)], runners[o].ext[1], runners[o].thr[1]))
         => items'[Cur(o)].last_error =
              (IF IsUncertainMsg(items[Cur(o)].last_error)
               THEN items[Cur(o)].last_error ELSE None)]_vars

\* C16 witness: the item flagged "Uncertain:" when its price went from 100
\* to 125 got a third history row from a clean update to 120, and the
\* message is still there.
C16_Witness ==
    /\ Len(items[1].price_history) = 3
    /\ items[1].current_price = Some(120)
    /\ items[1].last_checked = Some(2)
    /\ items[1].last_error = Some(MsgUncertain)

C19_NoScreenshotSkipsAI ==
    [][\A o \in Owners :
         /\ (At(o, "scrape") /\ runners'[o].exc = Some(MsgNoScreenshot))
              => runners'[o].pc = "error" /\ runners'[o].ext = None
         /\ (At(o, "error") /\ runners[o].exc = Some(MsgNoScreenshot))
              => /\ runners[o].ext = None
                 /\ runners'[o].pc \in {"error", "returned", "raised"}
                 /\ ErrCommit(o) =>
                      items'[Cur(o)].last_error = Some(MsgNoScreenshot)]_vars

\* C19 witness: the first check of a fresh item ended with the scrape
\* failure recorded.
C19_Witness ==
    /\ items[1].last_checked = None
    /\ items[1].last_error = Some(MsgNoScreenshot)
    /\ runners[Heartbeat].pc = "returned"

\* The price and stock columns of a row, and its history rows.
Readings(row) ==
    <<row.current_price, row.current_price_confidence,
      row.in_stock, row.in_stock_confidence, row.price_history>>

\* C20: the steps of a check that ends in a scrape failure or an extraction
\* failure leave current_price, in_stock, both confidences and the history
\* rows of the item as they were.
C20_FailureKeepsReadings ==
    [][\A o \in Owners :
         (/\ runners'[o] # runners[o]
          /\ \/ At(o, "scrape") \/ At(o, "analyze")
             \/ (At(o, "error") /\ runners[o].exc \in
                    {Some(MsgNoScreenshot), Some(MsgNoAIResult)}))
         => Readings(items'[Cur(o)]) = Readings(items[Cur(o)])]_vars

\* C20 witness: an extraction failure was recorded on the item whose price
\* had gone from 100 to 125, and price, stock and both history rows are
\* still there.
C20_Witness ==
    /\ items[1].last_error = Some(MsgNoAIResult)
    /\ items[1].current_price = Some(125)
    /\ items[1].current_price_confidence = Some(60)
    /\ items[1].in_stock = Some(TRUE)
    /\ Len(items[1].price_history) = 2

\* ------------------------------------------------------- ScraperService
\* The shared browser of services/scraper_service.py and the scrape_item
\* calls that use it. A browser handle is a positive number, fresh for every
\* successful connect_over_cdp; scraper.alive holds the handles whose
\* connection is up (is_connected()), scraper.lost the handles whose remote
\* end went away, scraper.reset the handles closed by _navigate's forced
\* shutdown. The asyncio.Lock is its holder and its FIFO queue of waiters:
\* release() hands the lock to the first waiter. A caller's pc names the
\* await it is suspended in; everything between two awaits is one step.
NumCallers == 2
DefaultTimeout == 90000

Callers == 1..NumCallers

\* ScrapeConfig values a caller may pass; the first is ScrapeConfig().
ScrapeConfigs ==
    { [smart_scroll |-> FALSE, timeout |-> DefaultTimeout],
      [smart_scroll |-> TRUE, timeout |-> 0] }

\* What an awaited browser operation can do: succeed, fail with an ordinary
\* error (a timeout), or fail with "Target page, context or browser has been
\* closed". On a handle whose connection is gone only the last can happen.
Outcomes == {"ok", "error", "closed"}

Call(S, c) == S.calls[c]

With(S, c, r) == [S EXCEPT !.calls[c] = r]

Outcome(S, c) ==
    IF Call(S, c).h \in S.alive THEN Outcomes ELSE {"closed"}

\* scrape_item's return statements: (None, "") is None, (screenshot, text)
\* is Some("screenshot").
Return(S, c, value) ==
    With(S, c, [Call(S, c) EXCEPT !.pc = "done", !.ret = value])

\* The statements of scrape_item that its try (lines 136-160) encloses.
InsideTryAfterPage(pc) ==
    pc \in {"nav", "popups", "focus", "scroll", "text", "shot", "ctx_close"}

InsideTry(pc) ==
    pc \in {"ctx_new", "ctx_route", "ctx_page", "nav", "popups", "focus",
            "scroll", "text", "shot", "ctx_close"}

\* An exception leaving the statement the caller is at: the except clause of
\* line 158 turns it into (None, ""), anywhere else it leaves scrape_item.
Throw(S, c) ==
    IF InsideTry(Call(S, c).pc)
    THEN With(S, c, [Call(S, c) EXCEPT !.pc = "done", !.ret = None, !.hard = TRUE])
    ELSE With(S, c, [Call(S, c) EXCEPT !.pc = "done", !.raised = TRUE])

\* Leaving the body of "async with _scoped_context() as page" with a result
\* still to be returned: the finally of line 178 closes the context first.
LeaveBlock(S, c, value) ==
    With(S, c, [Call(S, c) EXCEPT !.pc = "ctx_close", !.ret = value])

\* asyncio.Lock.release: the first waiter, if any, gets the lock.
ReleaseForgetsWaiters(S) == [S EXCEPT !.holder = None]

Release(S) ==
    IF S.waiters = <<>>
    THEN [S EXCEPT !.holder = None]
    ELSE LET w == Head(S.waiters) IN
         [S EXCEPT !.holder = Some(w),
                   !.waiters = Tail(S.waiters),
                   !.calls[w].pc = IF S.calls[w].pc = "sd_wait" THEN "sd_go" ELSE "in_go"]

\* _scoped_context up to its first await: _browser.new_context(...).
EnterContext(S, c) ==
    IF S.browser = None
    THEN Throw(With(S, c, [Call(S, c) EXCEPT !.pc = "ctx_new"]), c)
    ELSE With(S, c, [Call(S, c) EXCEPT !.pc = "ctx_new", !.h = S.browser[1]])

\* The end of initialize inside _ensure_connection: the lock is released,
\* then line 118 returns True or line 121 returns False.
InitializeExit(S, c, connected) ==
    IF connected
    THEN EnterContext(Release(S), c)
    ELSE LET R == Release(S) IN
         With(R, c, [Call(R, c) EXCEPT !.pc = "done", !.ret = None, !.hard = TRUE])

\* initialize with the lock held, up to its first await.
InitializeBody(S, c) ==
    IF S.browser = None
    THEN With(S, c, [Call(S, c) EXCEPT !.pc = "in_start"])
    ELSE InitializeExit(S, c, TRUE)

BeginInitialize(S, c) ==
    IF S.holder = None
    THEN InitializeBody([S EXCEPT !.holder = Some(c)], c)
    ELSE With([S EXCEPT !.waiters = Append(S.waiters, c)], c,
              [Call(S, c) EXCEPT !.pc = "in_wait"])

\* What follows shutdown: initialize in _ensure_connection (line 116), or
\* "return False" in _navigate (line 200), which leaves the with block.
AfterShutdown(S, c) ==
    IF Call(S, c).via = "ensure"
    THEN BeginInitialize(S, c)
    ELSE LeaveBlock(S, c, None)

ShutdownExit(S, c) == AfterShutdown(Release(S), c)

ShutdownStop(S, c) ==
    IF S.playwright
    THEN With(S, c, [Call(S, c) EXCEPT !.pc = "sd_stop"])
    ELSE ShutdownExit(S, c)

\* shutdown with the lock held, up to its first await.
ShutdownBody(S, c) ==
    IF S.browser # None
    THEN With(S, c, [Call(S, c) EXCEPT !.pc = "sd_close"])
    ELSE ShutdownStop(S, c)

BeginShutdown(S, c, via) ==
    IF S.holder = None
    THEN ShutdownBody(With([S EXCEPT !.holder = Some(c)], c,
                           [Call(S, c) EXCEPT !.via = via]), c)
    ELSE With([S EXCEPT !.waiters = Append(S.waiters, c)], c,
              [Call(S, c) EXCEPT !.via = via, !.pc = "sd_wait"])

\* _ensure_connection: the connection test of line 112 is made without the
\* lock.
ensure_connection(S, c) ==
    IF S.browser # None /\ S.browser[1] \in S.alive
    THEN EnterContext(S, c)
    ELSE BeginShutdown(S, c, "ensure")

ScraperStep(c, S) ==
    /\ scraper' = S
    /\ UNCHANGED <<items, settings, now, runners, sel, llm, response>>

\* scrape_item is called: line 131 and _ensure_connection up to the first
\* await.
ScraperService_scrape_item(c, config) ==
    /\ scraper.calls[c].pc = "idle"
    /\ ScraperStep(c, ensure_connection(
           With(scraper, c, [scraper.calls[c] EXCEPT
                                 !.smart_scroll = config.smart_scroll,
                                 !.timeout = config.timeout]), c))

\* A waiter resumes with the lock in shutdown or in initialize.
lock_acquired(c) ==
    /\ scraper.calls[c].pc \in {"sd_go", "in_go"}
    /\ ScraperStep(c, IF scraper.calls[c].pc = "sd_go"
                      THEN ShutdownBody(scraper, c)
                      ELSE InitializeBody(scraper, c))

\* shutdown, lines 101-106: close() and stop() return.
shutdown(c) ==
    \/ /\ scraper.calls[c].pc = "sd_close"
       /\ LET b == scraper.browser[1] IN
          ScraperStep(c, ShutdownStop(
              [scraper EXCEPT !.browser = None,
                              !.alive = @ \ {b},
                              !.reset = IF scraper.calls[c].via = "navigate"
                                        THEN @ \cup {b} ELSE @], c))
    \/ /\ scraper.calls[c].pc = "sd_stop"
       /\ ScraperStep(c, ShutdownExit([scraper EXCEPT !.playwright = FALSE], c))

\* initialize, lines 39-52: async_playwright().start() and connect_over_cdp
\* return or raise.
initialize(c, connected) ==
    \/ /\ scraper.calls[c].pc = "in_start"
       /\ ScraperStep(c,
            IF connected
            THEN With([scraper EXCEPT !.playwright = TRUE], c,
                      [scraper.calls[c] EXCEPT !.pc = "in_connect"])
            ELSE InitializeExit(scraper, c, FALSE))
    \/ /\ scraper.calls[c].pc = "in_connect"
       /\ ScraperStep(c,
            IF connected
            THEN InitializeExit(
                     [scraper EXCEPT !.browser = Some(scraper.nconn + 1),
                                     !.alive = @ \cup {scraper.nconn + 1},
                                     !.nconn = @ + 1], c, TRUE)
            ELSE InitializeExit(scraper, c, FALSE))

\* A failed await is remembered in the call's flags: hard for a failure that
\* ends the scrape, soft for a swallowed one, closederr for a page step
\* (navigation to screenshot) that failed with the "closed" message.
Noted(r, out, kind) ==
    [r EXCEPT !.closederr = @ \/ (out = "closed" /\ kind # "context"),
              !.hard = @ \/ (out # "ok" /\ kind \in {"hard", "context"}),
              !.soft = @ \/ (out # "ok" /\ kind = "soft"),
              !.after_shot = @ \/ (r.shots > 0 /\ kind # "context")]

\* _scoped_context, lines 166-175: new_context, route, new_page; the try
\* starts after them. With the page, _navigate is called (line 139).
scoped_context(c, out) ==
    /\ out \in Outcome(scraper, c)
    /\ \/ /\ scraper.calls[c].pc = "ctx_new"
          /\ ScraperStep(c,
               IF out = "ok"
               THEN With(scraper, c, [scraper.calls[c] EXCEPT
                                          !.pc = "ctx_route", !.ctx = "open"])
               ELSE Throw(With(scraper, c, Noted(scraper.calls[c], out, "context")), c))
       \/ /\ scraper.calls[c].pc = "ctx_route"
          /\ ScraperStep(c,
               IF out = "ok"
               THEN With(scraper, c, [scraper.calls[c] EXCEPT !.pc = "ctx_page"])
               ELSE Throw(With(scraper, c, Noted(scraper.calls[c], out, "context")), c))
       \/ /\ scraper.calls[c].pc = "ctx_page"
          /\ ScraperStep(c,
               IF out = "ok"
               THEN With(scraper, c, [scraper.calls[c] EXCEPT
                                          !.pc = "nav", !.page = TRUE,
                                          !.navtimeout = Some(scraper.calls[c].timeout)])
               ELSE Throw(With(scraper, c, Noted(scraper.calls[c], out, "context")), c))

\* _navigate, lines 183-200.
navigate(c, out) ==
    /\ scraper.calls[c].pc = "nav"
    /\ out \in Outcome(scraper, c)
    /\ LET r == Noted(scraper.calls[c], out, "hard") IN
       ScraperStep(c,
         CASE out = "ok" -> With(scraper, c, [r EXCEPT !.pc = "popups"])
           [] out = "error" ->
                LeaveBlock(With(scraper, c, [r EXCEPT !.naverr = "ordinary"]), c, None)
           [] out = "closed" ->
                BeginShutdown(With(scraper, c, [r EXCEPT !.naverr = "closed"]),
                              c, "navigate"))

\* _handle_popups, lines 203-223: every failure is swallowed.
handle_popups(c, out) ==
    /\ scraper.calls[c].pc = "popups"
    /\ out \in Outcome(scraper, c)
    /\ ScraperStep(c, With(scraper, c,
           [Noted(scraper.calls[c], out, "soft") EXCEPT !.pc = "focus"]))

\* _wait_for_selector / _auto_detect_price, lines 226-241: swallowed too.
focus(c, out) ==
    /\ scraper.calls[c].pc = "focus"
    /\ out \in Outcome(scraper, c)
    /\ ScraperStep(c, With(scraper, c,
           [Noted(scraper.calls[c], out, "soft") EXCEPT
                !.pc = IF scraper.calls[c].smart_scroll THEN "scroll" ELSE "text"]))

\* Lines 149-151: the smart scroll is not protected.
smart_scroll(c, out) ==
    /\ scraper.calls[c].pc = "scroll"
    /\ out \in Outcome(scraper, c)
    /\ LET r == Noted(scraper.calls[c], out, "hard") IN
       ScraperStep(c, IF out = "ok"
                      THEN With(scraper, c, [r EXCEPT !.pc = "text"])
                      ELSE LeaveBlock(With(scraper, c, r), c, None))

\* _extract_text, lines 244-251.
extract_text(c, out) ==
    /\ scraper.calls[c].pc = "text"
    /\ out \in Outcome(scraper, c)
    /\ ScraperStep(c, With(scraper, c,
           [Noted(scraper.calls[c], out, "soft") EXCEPT !.pc = "shot"]))

\* _take_screenshot, lines 254-259, and the return of line 156.
take_screenshot(c, out) ==
    /\ scraper.calls[c].pc = "shot"
    /\ out \in Outcome(scraper, c)
    /\ LET r == [Noted(scraper.calls[c], out, "hard") EXCEPT !.shots = @ + 1] IN
       ScraperStep(c, LeaveBlock(With(scraper, c, r), c,
                                 IF out = "ok" THEN Some("screenshot") ELSE None))

\* The finally of _scoped_context (line 179): context.close() returns, and
\* scrape_item returns what it was about to return, or close() raises into
\* the except of line 158.
context_close(c, out) ==
    /\ scraper.calls[c].pc = "ctx_close"
    /\ out \in Outcome(scraper, c)
    /\ LET r == [Noted(scraper.calls[c], out, "context") EXCEPT !.ctx = "closed"] IN
       ScraperStep(c, IF out = "ok"
                      THEN Return(With(scraper, c, r), c, r.ret)
                      ELSE Throw(With(scraper, c, r), c))

\* The remote browser goes away: is_connected() turns false.
BrowserDisconnects ==
    /\ scraper.browser # None
    /\ scraper.browser[1] \in scraper.alive
    /\ scraper' = [scraper EXCEPT !.alive = @ \ {scraper.browser[1]},
                                  !.lost = @ \cup {scraper.browser[1]}]
    /\ UNCHANGED <<items, settings, now, runners, sel, llm, response>>

CallerStep(c) ==
    \/ \E config \in ScrapeConfigs : ScraperService_scrape_item(c, config)
    \/ lock_acquired(c)
    \/ shutdown(c)
    \/ \E connected \in BOOLEAN : initialize(c, connected)
    \/ \E out \in Outcomes : scoped_context(c, out)
    \/ \E out \in Outcomes : navigate(c, out)
    \/ \E out \in Outcomes : handle_popups(c, out)
    \/ \E out \in Outcomes : focus(c, out)
    \/ \E out \in Outcomes : smart_scroll(c, out)
    \/ \E out \in Outcomes : extract_text(c, out)
    \/ \E out \in Outcomes : take_screenshot(c, out)
    \/ \E out \in Outcomes : context_close(c, out)

InitScrape ==
    /\ items = [i \in Items |-> AbsentRow]
    /\ settings = SettingsWith(None)
    /\ now = 0
    /\ runners = [o \in 0..MaxReq |-> Idle]
    /\ sel = NoSel
    /\ scraper = ScraperAtImport(Callers)
    /\ llm = LlmIdle
    /\ response = NoResponse

NextScrape ==
    \/ \E c \in Callers, config \in ScrapeConfigs : ScraperService_scrape_item(c, config)
    \/ \E c \in Callers : lock_acquired(c)
    \/ \E c \in Callers : shutdown(c)
    \/ \E c \in Callers, connected \in BOOLEAN : initialize(c, connected)
    \/ \E c \in Callers, out \in Outcomes : scoped_context(c, out)
    \/ \E c \in Callers, out \in Outcomes : navigate(c, out)
    \/ \E c \in Callers, out \in Outcomes : handle_popups(c, out)
    \/ \E c \in Callers, out \in Outcomes : focus(c, out)
    \/ \E c \in Callers, out \in Outcomes : smart_scroll(c, out)
    \/ \E c \in Callers, out \in Outcomes : extract_text(c, out)
    \/ \E c \in Callers, out \in Outcomes : take_screenshot(c, out)
    \/ \E c \in Callers, out \in Outcomes : context_close(c, out)
    \/ BrowserDisconnects

SpecScrape == InitScrape /\ [][NextScrape]_vars

\* The event loop runs every task that can run.
FairSpecScrape ==
    /\ SpecScrape
    /\ \A c \in Callers : WF_vars(CallerStep(c))

\* ------------------------------------------------- claims on ScraperService
\* Caller c holds a context, or is opening one, on browser handle b.
UsesHandle(c, b) ==
    /\ scraper.calls[c].pc \in {"ctx_new", "ctx_route", "ctx_page", "nav", "popups",
                                "focus", "scroll", "text", "shot", "ctx_close"}
    /\ scraper.calls[c].h = b

\* Caller d is inside the shutdown of _ensure_connection, closing the shared
\* handle.
TearsDown(d) ==
    /\ scraper.calls[d].pc = "sd_close"
    /\ scraper.calls[d].via = "ensure"

\* C21: concurrent callers that find the connection dead re-establish it
\* once: a connection is only ever replaced after it was lost or reset, and
\* no caller's reconnect closes a connected handle that another caller is
\* using.
C21_ReconnectSerialized ==
    /\ \A k \in 1..(scraper.nconn - 1) : k \in scraper.lost \cup scraper.reset
    /\ \A c, d \in Callers :
         (c # d /\ TearsDown(d) /\ scraper.browser # None /\ scraper.browser[1] \in scraper.alive)
            => ~UsesHandle(c, scraper.browser[1])

Done(c) == scraper.calls[c].pc = "done"

Reconnecting(c) ==
    scraper.calls[c].pc \in {"sd_wait", "sd_go", "sd_close", "sd_stop",
                             "in_wait", "in_go", "in_start", "in_connect"}

\* C23: every caller that starts tearing down or reconnecting leaves that
\* path, whoever else holds or awaits the lock, and every call returns.
C23_ReconnectTerminates ==
    \A c \in Callers :
        /\ Reconnecting(c) ~> ~Reconnecting(c)
        /\ (scraper.calls[c].pc # "idle") ~> Done(c)

\* A teardown triggered inside a running scrape waits for the lock while
\* another caller holds it on its own reconnect.
C23_Witness ==
    \E c, d \in Callers :
        /\ scraper.calls[c].pc = "sd_wait" /\ scraper.calls[c].via = "navigate"
        /\ scraper.holder = Some(d)
        /\ scraper.calls[d].via = "ensure" /\ Reconnecting(d)

\* C24: when a call has returned, the context it opened, if any, has been
\* closed.
C24_ContextClosedOnReturn ==
    \A c \in Callers : Done(c) => scraper.calls[c].ctx # "open"

\* C25: a call in which some step failed with a "closed" error has, by the
\* time it returns, torn the shared connection down: the handle it used is
\* no longer the shared handle, or at least no longer passes for connected,
\* so that the next call reconnects.
C25_ClosedErrorResetsConnection ==
    \A c \in Callers :
        (Done(c) /\ scraper.calls[c].closederr)
           => \/ scraper.browser # Some(scraper.calls[c].h)
              \/ scraper.calls[c].h \notin scraper.alive

\* C26: a call whose navigation failed with an ordinary error has still
\* attempted the screenshot exactly once when it returns; no call attempts
\* it twice, and no page step follows it.
C26_ScreenshotAfterNavigationError ==
    \A c \in Callers :
        /\ (Done(c) /\ scraper.calls[c].naverr = "ordinary") => scraper.calls[c].shots = 1
        /\ scraper.calls[c].shots <= 1
        /\ ~scraper.calls[c].after_shot

\* The timeout the claim expects navigation to get for a configured one.
ClaimedNavigationTimeout(timeout) ==
    IF timeout <= 0 THEN DefaultTimeout ELSE timeout

\* C27: the timeout handed to navigation is the configured one if that is
\* positive, and the default 90000 ms otherwise.
C27_TimeoutValidated ==
    \A c \in Callers :
        scraper.calls[c].navtimeout # None
           => scraper.calls[c].navtimeout
                 = Some(ClaimedNavigationTimeout(scraper.calls[c].timeout))

\* ------------------------------------------------------------- AIService
\* One analyze_image call of services/ai_service.py. llm.requests is the log
\* of the acompletion calls made: their kind ("extract" from call_llm,
\* "repair" from repair_json_response), whether response_format was passed,
\* and what came back. A response is named by what parse_and_validate_response
\* makes of its content; a failure by the exception acompletion raised.
MaxAttempts == 3

Providers == {"ollama", "openai", "anthropic"}

\* Response contents: a valid object; text that is no JSON; an object that
\* fails a schema constraint; JSON that is no object ("[]", "null"), for
\* which AIExtractionResponse(**data) raises TypeError; and the empty string.
Contents == {"valid", "invalid_json", "invalid_schema", "type_error", "empty"}

Failures == {"TimeoutError", "ConnectionError", "AuthenticationError", "BadRequestError"}

\* retry_if_exception_type((TimeoutError, ConnectionError)), line 198.
Retried(failure) == failure \in {"TimeoutError", "ConnectionError"}

\* Lines 241-246: only the openai branch passes response_format.
ResponseFormat(provider) == provider = "openai"

\* parse_and_validate_response, lines 117-146: the exception it raises, or
\* "ok".
Parse(content) ==
    CASE content = "valid" -> "ok"
      [] content \in {"invalid_json", "empty"} -> "JSONDecodeError"
      [] content = "invalid_schema" -> "ValidationError"
      [] content = "type_error" -> "TypeError"

\* The except clause of line 318.
Repairable(error) == error \in {"ValidationError", "JSONDecodeError"}

LlmStep(L) ==
    /\ llm' = L
    /\ UNCHANGED <<items, settings, now, runners, sel, scraper, response>>

\* analyze_image up to the await of call_llm (lines 279-310).
AIService_analyze_image(provider, enable_json_repair) ==
    /\ llm.pc = "idle"
    /\ LlmStep([llm EXCEPT !.pc = "call", !.provider = provider,
                           !.enable_json_repair = enable_json_repair,
                           !.call_llm = "running"])

\* analyze_image after call_llm returned text (lines 312-348): the parse,
\* and the repair call if the parse failed in a way line 318 catches.
AfterCallLlm(L, content) ==
    LET error == Parse(content) IN
    CASE error = "ok" ->
           [L EXCEPT !.pc = "done", !.result = Some("extraction")]
      [] Repairable(error) /\ L.enable_json_repair ->
           [L EXCEPT !.pc = "repair"]
      [] OTHER ->
           [L EXCEPT !.pc = "done", !.result = None]

\* One attempt of call_llm (lines 228-267) under the retry decorator (lines
\* 197-202): acompletion answers with content, which is returned as it is
\* ("" for no content), or raises.
AIService_call_llm(outcome) ==
    /\ llm.pc = "call"
    /\ llm.attempts < MaxAttempts
    /\ LET L == [llm EXCEPT !.attempts = @ + 1,
                            !.last = outcome,
                            !.requests = Append(@, [kind |-> "extract",
                                                    response_format |-> ResponseFormat(llm.provider),
                                                    response |-> outcome])] IN
       LlmStep(CASE outcome \in Contents ->
                      AfterCallLlm([L EXCEPT !.call_llm = "returned",
                                             !.text = Some(outcome)], outcome)
                 [] Retried(outcome) /\ L.attempts < MaxAttempts -> L
                 [] OTHER ->
                      [L EXCEPT !.pc = "done", !.call_llm = "raised", !.result = None])

\* repair_json_response, lines 148-194: one acompletion call, parsed the same
\* way; then lines 322-348.
AIService_repair_json_response(outcome) ==
    /\ llm.pc = "repair"
    /\ LET L == [llm EXCEPT !.requests = Append(@, [kind |-> "repair",
                                                    response_format |-> FALSE,
                                                    response |-> outcome])] IN
       LlmStep(IF outcome \in Contents /\ Parse(outcome) = "ok"
               THEN [L EXCEPT !.pc = "done", !.result = Some("extraction"),
                              !.repair_used = TRUE]
               ELSE [L EXCEPT !.pc = "done", !.result = None])

InitAI ==
    /\ items = [i \in Items |-> AbsentRow]
    /\ settings = SettingsWith(None)
    /\ now = 0
    /\ runners = [o \in 0..MaxReq |-> Idle]
    /\ sel = NoSel
    /\ scraper = ScraperAtImport({})
    /\ llm = LlmIdle
    /\ response = NoResponse

NextAI ==
    \/ \E provider \in Providers, enable_json_repair \in BOOLEAN :
           AIService_analyze_image(provider, enable_json_repair)
    \/ \E outcome \in Contents \cup Failures : AIService_call_llm(outcome)
    \/ \E outcome \in Contents \cup Failures : AIService_repair_json_response(outcome)

SpecAI == InitAI /\ [][NextAI]_vars

\* ------------------------------------------------------ claims on AIService
\* What the claim counts as a transient failure of an attempt.
ClaimedTransient == {"TimeoutError", "ConnectionError", "empty"}

\* The requests call_llm has made in this call.
ExtractRequests == SelectSeq(llm.requests, LAMBDA q : q.kind = "extract")

\* C28: call_llm makes at most 3 attempts; every attempt but the last ended
\* in a transient failure; a non-transient failure ends the call at once with
\* the error raised; and a third transient failure ends it with the error
\* raised and no extraction.
C28_RetryPolicy ==
    /\ llm.attempts <= 3
    /\ \A i \in 1..(Len(ExtractRequests) - 1) :
           ExtractRequests[i].response \in ClaimedTransient
    /\ llm.last \in {"AuthenticationError", "BadRequestError"}
          => (llm.call_llm = "raised" /\ llm.pc = "done")
    /\ (llm.attempts = 3 /\ llm.last \in ClaimedTransient)
          => (llm.call_llm = "raised" /\ llm.pc = "done" /\ llm.result = None)

\* C29: when call_llm has ended and its first response had empty content, it
\* made exactly two requests, the second without response_format, and it
\* returned the second response's content, or raised if that was empty (or
\* a failure) too.
C29_EmptyContentFallback ==
    (llm.call_llm \in {"returned", "raised"}
       /\ ExtractRequests # <<>> /\ ExtractRequests[1].response = "empty")
    => /\ Len(ExtractRequests) = 2
       /\ ~ExtractRequests[2].response_format
       /\ IF ExtractRequests[2].response \in Contents \ {"empty"}
          THEN llm.call_llm = "returned" /\ llm.text = Some(ExtractRequests[2].response)
          ELSE llm.call_llm = "raised"

\* The repair calls analyze_image has made in this call.
RepairRequests == SelectSeq(llm.requests, LAMBDA q : q.kind = "repair")

\* C30: when analyze_image has ended after call_llm returned a response: if
\* the response validates, no repair call was made and repair_used is false;
\* if it does not and repair is enabled, exactly one repair call was made,
\* and its output, if it validates, is the result, with repair_used true,
\* and otherwise there is no result; if repair is disabled, no repair call
\* was made and there is no result.
C30_RepairFallback ==
    (llm.pc = "done" /\ llm.text # None)
    => IF llm.text = Some("valid")
       THEN /\ RepairRequests = <<>>
            /\ llm.result = Some("extraction")
            /\ ~llm.repair_used
       ELSE IF llm.enable_json_repair
       THEN /\ Len(RepairRequests) = 1
            /\ IF RepairRequests[1].response = "valid"
               THEN llm.result = Some("extraction") /\ llm.repair_used
               ELSE llm.result = None
       ELSE /\ RepairRequests = <<>>
            /\ llm.result = None

\* ------------------------------------------------------------- ai_schema
\* AIExtractionResponse(**data): the field validators of ai_schema.py applied
\* to one parsed model answer. A JSON value is a record of its kind (null,
\* num, str, bool, and the nan / inf / -inf that json.loads accepts), a
\* number being counted in hundredths and a string being the sequence of its
\* characters. A Python float has the kinds num, nan, inf and -inf.
JNull == [kind |-> "null", n |-> 0, s |-> <<>>]

JNum(n) == [kind |-> "num", n |-> n, s |-> <<>>]

JStr(s) == [kind |-> "str", n |-> 0, s |-> s]

JBool(b) == [kind |-> "bool", n |-> IF b THEN 1 ELSE 0, s |-> <<>>]

JNaN == [kind |-> "nan", n |-> 0, s |-> <<>>]

JInf == [kind |-> "inf", n |-> 0, s |-> <<>>]

JNegInf == [kind |-> "-inf", n |-> 0, s |-> <<>>]

ValueError == [kind |-> "ValueError", n |-> 0, s |-> <<>>]

DigitChars == <<"0", "1", "2", "3", "4", "5", "6", "7", "8", "9">>

IsDigit(c) == \E d \in 1..10 : DigitChars[d] = c

DigitValue(c) == (CHOOSE d \in 1..10 : DigitChars[d] = c) - 1

\* The number a sequence of digits denotes ("" denotes 0).
RECURSIVE Decimal(_)
Decimal(s) ==
    IF s = <<>> THEN 0
    ELSE 10 * Decimal(SubSeq(s, 1, Len(s) - 1)) + DigitValue(s[Len(s)])

Count(s, c) == Cardinality({k \in 1..Len(s) : s[k] = c})

\* float(s) for a string of digits and dots with an optional sign: the
\* value in hundredths, or ValueError.
ParseFloat(s) ==
    LET neg == s # <<>> /\ s[1] = "-"
        body == IF neg THEN Tail(s) ELSE s
        dot == IF Count(body, ".") = 0 THEN Len(body) + 1
               ELSE CHOOSE k \in 1..Len(body) :
                        body[k] = "." /\ \A j \in 1..(k - 1) : body[j] # "."
        whole == SubSeq(body, 1, dot - 1)
        frac == SubSeq(body, dot + 1, Len(body))
        cents == SubSeq(frac \o <<"0", "0">>, 1, 2)
    IN  IF \/ Count(body, ".") > 1
           \/ Len(whole) + Len(frac) = 0
           \/ \E k \in 1..Len(body) : body[k] # "." /\ ~IsDigit(body[k])
        THEN ValueError
        ELSE JNum((IF neg THEN -1 ELSE 1) * (100 * Decimal(whole) + Decimal(cents)))

\* float(v) of a JSON value that is not null.
PyFloat(v) ==
    CASE v.kind = "str" -> ParseFloat(v.s)
      [] v.kind = "bool" -> JNum(100 * v.n)
      [] OTHER -> v

\* x < y on Python floats: every comparison with nan is false.
PyLess(x, y) ==
    CASE x.kind = "nan" \/ y.kind = "nan" -> FALSE
      [] x.kind = "-inf" -> y.kind # "-inf"
      [] y.kind = "inf" -> x.kind # "inf"
      [] x.kind = "num" /\ y.kind = "num" -> x.n < y.n
      [] OTHER -> FALSE

\* min(a, b) and max(a, b) of Python: the first argument wins a tie.
PyMin(a, b) == IF PyLess(b, a) THEN b ELSE a

PyMax(a, b) == IF PyLess(a, b) THEN b ELSE a

\* clamp_confidence, ai_schema.py lines 58-64.
clamp_confidence_from_below(v) ==
    IF v.kind = "null" THEN JNum(0)
    ELSE LET f == PyFloat(v) IN
         IF f.kind = "ValueError" THEN f ELSE PyMax(JNum(0), f)

clamp_confidence(v) ==
    IF v.kind = "null" THEN JNum(0)
    ELSE LET f == PyFloat(v) IN
         IF f.kind = "ValueError" THEN f
         ELSE PyMax(JNum(0), PyMin(JNum(100), f))

\* re.sub(r"[^\d.]", "", v)
DigitsAndDots(s) == SelectSeq(s, LAMBDA c : IsDigit(c) \/ c = ".")

\* normalize_price, lines 66-78.
normalize_price(v) ==
    CASE v.kind = "null" -> JNull
      [] v.kind = "str" /\ v.s \in {<<"n", "u", "l", "l">>, <<>>} -> JNull
      [] v.kind = "str" ->
           IF DigitsAndDots(v.s) = <<>> THEN JNull
           ELSE ParseFloat(DigitsAndDots(v.s))
      [] OTHER -> PyFloat(v)

UpperChars ==
    <<"A", "B", "C", "D", "E", "F", "G", "H", "I", "J", "K", "L", "M",
      "N", "O", "P", "Q", "R", "S", "T", "U", "V", "W", "X", "Y", "Z">>

LowerChars ==
    <<"a", "b", "c", "d", "e", "f", "g", "h", "i", "j", "k", "l", "m",
      "n", "o", "p", "q", "r", "s", "t", "u", "v", "w", "x", "y", "z">>

\* str.lower()
Lower(s) ==
    [k \in 1..Len(s) |->
        IF \E j \in 1..26 : UpperChars[j] = s[k]
        THEN LowerChars[CHOOSE j \in 1..26 : UpperChars[j] = s[k]]
        ELSE s[k]]

\* str.strip()
RECURSIVE Strip(_)
Strip(s) ==
    IF s = <<>> THEN s
    ELSE IF s[1] = " " THEN Strip(Tail(s))
    ELSE IF s[Len(s)] = " " THEN Strip(SubSeq(s, 1, Len(s) - 1))
    ELSE s

TrueWords ==
    { <<"t", "r", "u", "e">>,
      <<"y", "e", "s">>,
      <<"i", "n", " ", "s", "t", "o", "c", "k">>,
      <<"a", "v", "a", "i", "l", "a", "b", "l", "e">>,
      <<"1">> }

FalseWords ==
    { <<"f", "a", "l", "s", "e">>,
      <<"n", "o">>,
      <<"o", "u", "t", " ", "o", "f", " ", "s", "t", "o", "c", "k">>,
      <<"u", "n", "a", "v", "a", "i", "l", "a", "b", "l", "e">>,
      <<"0">> }

\* normalize_stock, lines 80-93.
normalize_stock_case_sensitive(v) ==
    CASE v.kind = "null" -> JNull
      [] v.kind = "str" /\ v.s = <<"n", "u", "l", "l">> -> JNull
      [] v.kind = "str" ->
           IF v.s \in TrueWords THEN JBool(TRUE)
           ELSE IF v.s \in FalseWords THEN JBool(FALSE)
           ELSE JNull
      [] v.kind = "num" -> JBool(v.n # 0)
      [] v.kind = "bool" -> v
      [] OTHER -> JBool(TRUE)

normalize_stock(v) ==
    CASE v.kind = "null" -> JNull
      [] v.kind = "str" /\ v.s = <<"n", "u", "l", "l">> -> JNull
      [] v.kind = "str" ->
           LET v_lower == Strip(Lower(v.s)) IN
           IF v_lower \in TrueWords THEN JBool(TRUE)
           ELSE IF v_lower \in FalseWords THEN JBool(FALSE)
           ELSE JNull
      [] v.kind = "num" -> JBool(v.n # 0)
      [] v.kind = "bool" -> v
      [] OTHER -> JBool(TRUE)

\* AIExtractionResponse(**data), lines 22-93: the validated fields, or a
\* ValidationError if a validator raised ValueError.
AIExtractionResponse(data) ==
    LET price == normalize_price(data.price)
        price_confidence == clamp_confidence(data.price_confidence)
        in_stock_confidence == clamp_confidence(data.in_stock_confidence)
    IN  IF ValueError \in {price, price_confidence, in_stock_confidence}
        THEN [error |-> "ValidationError"]
        ELSE [error |-> "none", price |-> price,
              price_confidence |-> price_confidence,
              in_stock |-> normalize_stock(data.in_stock),
              in_stock_confidence |-> in_stock_confidence]

\* The values the model may put in its answer.
RawConfidences ==
    {JNull, JNum(-50), JNum(0), JNum(80), JNum(100), JNum(150), JNaN, JInf,
     JStr(<<"0", ".", "8">>)}

RawPrices ==
    {JNull, JNum(0), JNum(9999), JNum(-500), JNaN, JInf, JStr(<<"n", "u", "l", "l">>),
     JStr(<<"$", "9", "9", ".", "9", "9">>), JStr(<<"$", "1", ",", "2", "3", "4", ".", "5", "6">>), JStr(<<"-", "5">>), JStr(<<"1", ".", "2", ".", "3">>)}

StockStrings ==
    { <<"t", "r", "u", "e">>,
      <<"T", "r", "u", "e">>,
      <<"Y", "E", "S">>,
      <<"i", "n", " ", "s", "t", "o", "c", "k">>,
      <<"I", "n", " ", "S", "t", "o", "c", "k">>,
      <<"A", "v", "a", "i", "l", "a", "b", "l", "e">>,
      <<"1">>,
      <<"f", "a", "l", "s", "e">>,
      <<"F", "a", "l", "s", "e">>,
      <<"N", "o">>,
      <<"O", "U", "T", " ", "O", "F", " ", "S", "T", "O", "C", "K">>,
      <<"u", "n", "a", "v", "a", "i", "l", "a", "b", "l", "e">>,
      <<"0">>,
      <<"m", "a", "y", "b", "e">>,
      <<>>,
      <<"y">>,
      <<"i", "n", "-", "s", "t", "o", "c", "k">>,
      <<"2">> }

RawStocks ==
    {JNull, JBool(TRUE), JBool(FALSE), JNum(0)} \cup {JStr(s) : s \in StockStrings}

\* parse_and_validate_response hands the parsed answer to the schema, on the
\* primary path (ai_service.py line 317) and on the repair path (line 194).
parse_and_validate_response ==
    /\ response.pc = "parsed"
    /\ response' = [response EXCEPT !.pc = "validated",
                                    !.out = AIExtractionResponse(response.data)]
    /\ UNCHANGED <<items, settings, now, runners, sel, scraper, llm>>

InitSchema ==
    /\ items = [i \in Items |-> AbsentRow]
    /\ settings = SettingsWith(None)
    /\ now = 0
    /\ runners = [o \in 0..MaxReq |-> Idle]
    /\ sel = NoSel
    /\ scraper = ScraperAtImport({})
    /\ llm = LlmIdle
    /\ response \in
         {[pc |-> "parsed", path |-> path,
           data |-> [price |-> p, price_confidence |-> pc,
                     in_stock |-> k, in_stock_confidence |-> kc],
           out |-> [error |-> "none"]] :
            path \in {"primary", "repair"}, p \in RawPrices, pc \in RawConfidences,
            k \in RawStocks, kc \in {JNull, JNum(30), JNum(200)}}

NextSchema == parse_and_validate_response

SpecSchema == InitSchema /\ [][NextSchema]_vars

\* --------------------------------------------------- claims on ai_schema
\* An answer has passed the schema.
Validated == response.pc = "validated" /\ response.out.error = "none"

\* The confidence the claim expects for a null or numeric input.
ClaimedConfidence(v) ==
    IF v.kind = "null" THEN 0
    ELSE IF v.n < 0 THEN 0
    ELSE IF v.n > 100 THEN 100
    ELSE v.n

InUnitInterval(f) == f.kind = "num" /\ 0 <= f.n /\ f.n <= 100

\* C31: both confidences of a validated answer lie in [0, 1], on either
\* path; a numeric input below 0 has become 0, one above 1 has become 1,
\* null has become 0, and one in range is unchanged.
C31_ConfidencesClamped ==
    Validated =>
       /\ InUnitInterval(response.out.price_confidence)
       /\ InUnitInterval(response.out.in_stock_confidence)
       /\ response.data.price_confidence.kind \in {"null", "num"}
             => response.out.price_confidence.n
                  = ClaimedConfidence(response.data.price_confidence)
       /\ response.data.in_stock_confidence.kind \in {"null", "num"}
             => response.out.in_stock_confidence.n
                  = ClaimedConfidence(response.data.in_stock_confidence)

\* On the repair path an answer with price_confidence 1.5 and a null
\* in_stock_confidence was validated.
C31_Witness ==
    /\ Validated
    /\ response.path = "repair"
    /\ response.data.price_confidence = JNum(150)
    /\ response.out.price_confidence = JNum(100)
    /\ response.data.in_stock_confidence = JNull
    /\ response.out.in_stock_confidence = JNum(0)

\* C32: the price of a validated answer is null or a finite number that is
\* not negative.
C32_PriceNonNegativeFinite ==
    Validated =>
       \/ response.out.price = JNull
       \/ response.out.price.kind = "num" /\ response.out.price.n >= 0

\* The stock strings the claim's vocabulary maps to true and to false,
\* whatever their case.
ClaimedTrueStrings ==
    { <<"t", "r", "u", "e">>,
      <<"T", "r", "u", "e">>,
      <<"Y", "E", "S">>,
      <<"i", "n", " ", "s", "t", "o", "c", "k">>,
      <<"I", "n", " ", "S", "t", "o", "c", "k">>,
      <<"A", "v", "a", "i", "l", "a", "b", "l", "e">>,
      <<"1">> }

ClaimedFalseStrings ==
    { <<"f", "a", "l", "s", "e">>,
      <<"F", "a", "l", "s", "e">>,
      <<"N", "o">>,
      <<"O", "U", "T", " ", "O", "F", " ", "S", "T", "O", "C", "K">>,
      <<"u", "n", "a", "v", "a", "i", "l", "a", "b", "l", "e">>,
      <<"0">> }

\* C33: a stock value given as a string becomes true for the words of the
\* true list, false for those of the false list, in any case, and null for
\* every other string.
C33_StockVocabulary ==
    (Validated /\ response.data.in_stock.kind = "str")
    => response.out.in_stock =
          IF response.data.in_stock.s \in ClaimedTrueStrings THEN JBool(TRUE)
          ELSE IF response.data.in_stock.s \in ClaimedFalseStrings THEN JBool(FALSE)
          ELSE JNull

\* "OUT OF STOCK" was validated to false.
C33_Witness ==
    /\ Validated
    /\ response.data.in_stock = JStr(<<"O", "U", "T", " ", "O", "F", " ", "S", "T", "O", "C", "K">>)
    /\ response.out.in_stock = JBool(FALSE)

\* ------------------------------------------------------- the notifications
\* SpecNotify: one manual check of one item. The item was never checked, or
\* an earlier check at time 0 left it with a price of 0 or 100 and a stock
\* value; it has no profile, or one whose three toggles and drop threshold
\* are drawn below, and no target or one of the targets below. The settings
\* hold no thresholds, so both are the default of 50.
NotifyOldPrices == {None, Some(0), Some(100)}
NotifyOldStocks == {None, Some(TRUE), Some(FALSE)}
NotifyDropThresholds == {10, 50}
NotifyTargets == {None, Some(0), Some(90)}
NotifyProfiles ==
    {<<None, DefaultAlerts>>} \cup
    {<<Some(60), [notify_on_price_drop |-> d, price_drop_threshold_percent |-> t,
                  notify_on_target_price |-> g, notify_on_stock_change |-> s]>> :
        d \in BOOLEAN, t \in NotifyDropThresholds, g \in BOOLEAN, s \in BOOLEAN}
NotifyPriceReadings ==
    {<<None, 0>>, <<Some(50), 40>>, <<Some(90), 40>>} \cup
    {<<Some(p), 90>> : p \in {0, 50, 90, 91, 100}}
NotifyStockReadings ==
    {<<None, 0>>} \cup {<<Some(b), c>> : b \in BOOLEAN, c \in {40, 90}}
NotifyAIResults ==
    {None} \cup {Some(Extraction(p[1], p[2], k[1], k[2])) :
                    p \in NotifyPriceReadings, k \in NotifyStockReadings}

NotifyRow(price, stock, profile, target) ==
    [NewRow(TRUE, None, profile[1]) EXCEPT
        !.last_checked = IF price = None /\ stock = None THEN None ELSE Some(0),
        !.current_price = price,
        !.current_price_confidence = IF price = None THEN None ELSE Some(90),
        !.in_stock = stock,
        !.in_stock_confidence = IF stock = None THEN None ELSE Some(90),
        !.price_history =
            IF price = None THEN <<>>
            ELSE <<HistoryEntry(Extraction(price, 90, stock, 90))>>,
        !.target_price = target,
        !.alerts = profile[2]]

InitNotify ==
    /\ items \in
         {[i \in Items |-> IF i = 1 THEN NotifyRow(p, s, pr, t) ELSE AbsentRow] :
            p \in NotifyOldPrices, s \in NotifyOldStocks,
            pr \in NotifyProfiles, t \in NotifyTargets}
    /\ settings = SettingsWith(Some(1))
    /\ now = 0
    /\ runners = [o \in 0..MaxReq |-> Idle]
    /\ sel = NoSel
    /\ scraper = ScraperAtImport({})
    /\ llm = LlmIdle
    /\ response = NoResponse

NextNotify ==
    \/ \E i \in Items : check_item(i)
    \/ \E o \in Owners : get_item_data(o)
    \/ \E o \in Owners : scrape_item(o)
    \/ \E o \in Owners, r \in NotifyAIResults : analyze_image(o, r)
    \/ \E o \in Owners : get_thresholds(o)
    \/ \E o \in Owners : update_db(o)
    \/ \E o \in Owners : send_notifications(o)
    \/ \E o \in Owners : update_db_error(o)

SpecNotify == InitNotify /\ [][NextNotify]_vars

\* The check of owner o is through with its notifications: every alert that
\* was due has been handed to the sender and none of the sends failed.
Notified(o) ==
    /\ At(o, "returned")
    /\ runners[o].sent # None

\* The alert named a was sent in the check of owner o.
Sent(o, a) == Notified(o) /\ a \in runners[o].sent[1]

\* The item of the check has a profile with the toggle named t on.
ProfileWith(o, t) ==
    /\ items[Cur(o)].exists
    /\ items[Cur(o)].profile # None
    /\ items[Cur(o)].alerts[t]

\* The price and the stock value the check extracted (new) and those the item
\* had before the check updated it (old).
NewPrice(o) == runners[o].ext[1].price
OldPrice(o) == runners[o].old.price
NewStock(o) == runners[o].ext[1].in_stock
OldStock(o) == runners[o].old.stock

ClaimedPriceDrop(o) ==
    /\ ProfileWith(o, "notify_on_price_drop")
    /\ OldPrice(o) # None /\ NewPrice(o) # None
    /\ NewPrice(o)[1] < OldPrice(o)[1]
    /\ (OldPrice(o)[1] - NewPrice(o)[1]) * 100
         >= items[Cur(o)].alerts.price_drop_threshold_percent * OldPrice(o)[1]

ClaimedTarget(o) ==
    /\ ProfileWith(o, "notify_on_target_price")
    /\ NewPrice(o) # None
    /\ items[Cur(o)].target_price # None
    /\ NewPrice(o)[1] <= items[Cur(o)].target_price[1]

\* C35: in a check that is through with its notifications, a target-price
\* alert was sent if and only if the item has a profile with
\* notify_on_target_price on, the new price is known, the item has a target
\* price, and the new price is at most the target; whether a price-drop or a
\* stock-change alert was sent in the same check makes no difference.
C35_TargetAlert ==
    \A o \in Owners :
        Notified(o) => (Sent(o, "target_price") <=> ClaimedTarget(o))

ClaimedStockChange(o) ==
    /\ ProfileWith(o, "notify_on_stock_change")
    /\ OldStock(o) # None /\ NewStock(o) # None
    /\ OldStock(o) # NewStock(o)

PriceAccepted(o) ==
    /\ NewPrice(o) # None
    /\ runners[o].ext[1].price_confidence >= runners[o].thr[1].price

StockAccepted(o) ==
    /\ NewStock(o) # None
    /\ runners[o].ext[1].in_stock_confidence >= runners[o].thr[1].stock

\* C38: no price-drop or target-price alert is sent for an extracted price
\* that was not accepted as the item's current price, and no stock-change
\* alert for an extracted stock value that was not accepted.
C38_AlertsOnAcceptedStateOnly ==
    \A o \in Owners :
        /\ Sent(o, "price_drop") \/ Sent(o, "target_price") => PriceAccepted(o)
        /\ Sent(o, "stock_change") => StockAccepted(o)

\* C39: a check of an item whose stored price is 0 takes the success path:
\* when update_db commits for such a row, a price with sufficient confidence
\* is stored, last_checked advances, and the check goes on to its
\* notifications instead of the error path.
C39_PriceZeroNotStuck ==
    [][\A o \in Owners :
         (/\ At(o, "update")
          /\ items[Cur(o)].exists
          /\ items[Cur(o)].current_price = Some(0)
          /\ runners'[o].pc \in {"notify", "error"}
          /\ runners'[o].exc # Some(MsgExternal))
         => /\ runners'[o].pc = "notify"
            /\ items'[Cur(o)].last_checked = Some(now)
            /\ PriceGate(runners[o].ext[1], runners[o].thr[1])
                 => items'[Cur(o)].current_price = runners[o].ext[1].price]_vars

\* ------------------------------------------------------------ refresh-all
\* SpecRefresh: refresh-all requests over a table whose rows are missing,
\* inactive or active, and flagged or not, each followed by the checks it
\* enqueued.
RefreshRows ==
    {AbsentRow} \cup
    {[NewRow(a, None, None) EXCEPT !.is_refreshing = r] : a \in BOOLEAN, r \in BOOLEAN}

InitRefresh ==
    /\ items \in [Items -> RefreshRows]
    /\ settings = SettingsWith(Some(1))
    /\ now = 0
    /\ runners = [o \in 0..MaxReq |-> Idle]
    /\ sel = NoSel
    /\ scraper = ScraperAtImport({})
    /\ llm = LlmIdle
    /\ response = NoResponse

NextRefresh ==
    \/ refresh_all_items
    \/ \E o \in Owners : get_item_data(o)
    \/ \E o \in Owners : scrape_item(o)
    \/ \E o \in Owners, r \in AIResults : analyze_image(o, r)
    \/ \E o \in Owners : get_thresholds(o)
    \/ \E o \in Owners : update_db(o)
    \/ \E o \in Owners : send_notifications(o)
    \/ \E o \in Owners : update_db_error(o)
    \/ \E o \in Owners : OnReturn(o)
    \/ \E o \in Owners : OnRaise(o)

SpecRefresh == InitRefresh /\ [][NextRefresh]_vars

\* The number of checks of item i in the queue q.
Enqueued(q, i) == Cardinality({k \in 1..Len(q) : q[k] = i})

\* C37: a refresh-all request sets is_refreshing on every active item in the
\* step that answers it and enqueues exactly one check per active item; an
\* inactive item keeps its row as it was and gets no check.
C37_RefreshAllFlagsActiveItems ==
    [][refresh_all_items =>
         \E o \in Requests :
            /\ runners[o].pc = "idle"
            /\ runners'[o].pc # "idle"
            /\ \A i \in Items :
                 IF items[i].exists /\ items[i].is_active
                 THEN /\ items'[i].is_refreshing
                      /\ Enqueued(runners'[o].queue, i) = 1
                 ELSE /\ items'[i] = items[i]
                      /\ Enqueued(runners'[o].queue, i) = 0]_vars

\* A refresh-all request was answered over an active and an inactive item:
\* the active one is flagged and has its check, the inactive one has neither.
C37_Witness ==
    \E o \in Requests :
        /\ At(o, "load")
        /\ runners[o].queue = <<NumItems>>
        /\ items[NumItems].is_active /\ items[NumItems].is_refreshing
        /\ items[1].exists /\ ~items[1].is_active /\ ~items[1].is_refreshing

\* ------------------------------------------------------------ item URLs
BLOCKED_SCHEMES == {"file", "javascript", "data", "ftp"}

\* 172\.(1[6-9]|2[0-9]|3[0-1])\.
PrivateClassB ==
    {"16", "17", "18", "19", "20", "21", "22", "23",
     "24", "25", "26", "27", "28", "29", "30", "31"}

\* Some pattern of PRIVATE_IP_PATTERNS matches the hostname at its start.
PRIVATE_IP_PATTERNS(h) ==
    LET l == h.labels IN
    \/ h.sep = "." /\ Len(l) >= 2 /\ l[1] \in {"127", "10"}
    \/ h.sep = "." /\ Len(l) >= 3 /\ l[1] = "172" /\ l[2] \in PrivateClassB
    \/ h.sep = "." /\ Len(l) >= 3 /\ l[1] = "192" /\ l[2] = "168"
    \/ h.sep = "." /\ Len(l) >= 3 /\ l[1] = "169" /\ l[2] = "254"
    \/ h.sep = ":" /\ l = <<"", "", "1">>
    \/ h.sep = ":" /\ Len(l) >= 2 /\ l[1] \in {"fc00", "fe80"}
    \/ h.sep = "." /\ l = <<"localhost">>

\* validate_url(url) returns without raising URLValidationError.
validate_url(url) ==
    /\ url.scheme # ""
    /\ url.scheme \notin BLOCKED_SCHEMES
    /\ url.scheme \in {"http", "https"}
    /\ url.hostname # None
    /\ ~PRIVATE_IP_PATTERNS(url.hostname[1])

\* SpecUrl: items are created, edited and deleted through the API, with the
\* URLs below: public hosts, loopback, private and link-local hosts, other
\* schemes, no scheme and no hostname.
UrlHosts ==
    {Host(".", <<"example", "com">>), Host(".", <<"localhost">>),
     Host(".", <<"127", "0", "0", "1">>), Host(".", <<"10", "1", "2", "3">>),
     Host(".", <<"172", "16", "0", "1">>), Host(".", <<"172", "32", "0", "1">>),
     Host(".", <<"192", "168", "0", "1">>),
     Host(".", <<"169", "254", "169", "254">>),
     Host(".", <<"8", "8", "8", "8">>),
     Host(":", <<"", "", "1">>), Host(":", <<"fc00", "", "1">>),
     Host(":", <<"fe80", "", "1">>)}
Urls ==
    {Url("http", h) : h \in UrlHosts} \cup
    {Url("https", Host(".", <<"example", "com">>)),
     Url("https", Host(".", <<"localhost">>)),
     Url("ftp", Host(".", <<"example", "com">>)),
     Url("file", None), Url("gopher", Host(".", <<"example", "com">>)),
     Url("", None), Url("http", None)}

\* The bodies of POST /items and PUT /items/{item_id}.
ItemCreates ==
    {[url |-> u, target_price |-> t, check_interval_minutes |-> None,
      notification_profile_id |-> None, current_price |-> p, in_stock |-> None] :
        u \in Urls, t \in {None, Some(90)}, p \in {None, Some(100)}}

\* models.Item(**item.model_dump()), or setattr of each of its keys
SetAttrs(row, item) ==
    [row EXCEPT !.url = item.url,
                !.target_price = item.target_price,
                !.check_interval_minutes = item.check_interval_minutes,
                !.profile = item.notification_profile_id,
                !.current_price = item.current_price,
                !.in_stock = item.in_stock]

\* POST /items: a URL that fails validate_url is answered with 400.
create_item(i, item) ==
    /\ ~items[i].exists
    /\ validate_url(item.url)
    /\ items' = [items EXCEPT ![i] = SetAttrs(NewRow(TRUE, None, None), item)]
    /\ UNCHANGED <<settings, now, runners, sel, scraper, llm, response>>

\* PUT /items/{item_id}: 404 for a missing row
update_item(i, item) ==
    /\ items[i].exists
    /\ items' = [items EXCEPT ![i] = SetAttrs(items[i], item)]
    /\ UNCHANGED <<settings, now, runners, sel, scraper, llm, response>>

InitUrl ==
    /\ items = [i \in Items |-> AbsentRow]
    /\ settings = SettingsWith(Some(1))
    /\ now = 0
    /\ runners = [o \in 0..MaxReq |-> Idle]
    /\ sel = NoSel
    /\ scraper = ScraperAtImport({})
    /\ llm = LlmIdle
    /\ response = NoResponse

NextUrl ==
    \/ \E i \in Items, item \in ItemCreates : create_item(i, item)
    \/ \E i \in Items, item \in ItemCreates : update_item(i, item)
    \/ \E i \in Items : delete_item(i)

SpecUrl == InitUrl /\ [][NextUrl]_vars

\* C40: every stored item has a URL that passes validate_url, whatever
\* create_item and update_item calls were made.
C40_StoredUrlsValid ==
    \A i \in Items : items[i].exists => validate_url(items[i].url)

====
